---- MODULE Spec2Model ----
(***************************************************************************)
(* State-machine model of the RSU trust-and-consensus core of VNDN-BC:     *)
(* the PBFT-style block agreement of VanetBlockchainApp, its ledger, the   *)
(* credibility / reputation engine and the adaptive batch manager.         *)
(*                                                                         *)
(* Conventions.  RSUs are identified by their node names.  A hash is the   *)
(* tuple of the fields SHA-256 is applied to (collision-free idealisation  *)
(* of VanetBlock::calculateHash); a hash announced by a faulty RSU may be  *)
(* any hash already in play or a value that is the hash of nothing.        *)
(* Reputations and trust values are fixed-point numbers in units of        *)
(* 1/RepScale.  The view and sequence numbers of a round influence no      *)
(* branch of the handlers and are left out of the round state.             *)
(***************************************************************************)
EXTENDS Integers, Sequences, FiniteSets, TLC

\* ------------------------------------------------------------------------
\* Bounds of the model
\* ------------------------------------------------------------------------
MaxTime == 1
MaxFlushes == 1
MaxForged == 2
MaxReports == 3
MaxBatchSteps == 4
MaxAdjustments == 7
MaxRegistrations == 2
MaxProcessedIds == 2
ClusterSize == 10
RateScale == 100
RepScale == 1000

\* ------------------------------------------------------------------------
\* Names and program constants
\* ------------------------------------------------------------------------
RsuNames == <<"RSU-0", "RSU-1", "RSU-2", "RSU-3">>
AllRsus == {RsuNames[k] : k \in 1..Len(RsuNames)}
Leader == "RSU-0"
RsuLists == {SubSeq(RsuNames, 1, k) : k \in 1..Len(RsuNames)}

IDLE == 0
PRE_PREPARE_SENT == 1
PRE_PREPARE_RECEIVED == 2
PREPARE_SENT == 3
COMMIT_SENT == 4
COMMITTED == 5

Half == RepScale \div 2

VARIABLES
    m_rsuList,              \* the RSU list handed to SetRsuList (same at every RSU)
    faultMode,              \* "none", "silent" or "byzantine": what the last RSU does
    m_localBlockchain,      \* RSU -> sequence of blocks
    m_pbftActiveConsensus,  \* RSU -> (block hash -> round state)
    m_transactionPool,      \* RSU -> sequence of transactions
    m_vehicleKeys,          \* RSU -> (vehicle id -> public key)
    m_vehicleReputations,   \* RSU -> (vehicle id -> reputation)
    m_processedTransactionIds, \* leader's batch manager: ids already buffered
    sent,                   \* every message an honest RSU has broadcast
    forged,                 \* pre-prepares the faulty RSU has put on the network
    proposeTimers,          \* scheduled ProposeBlockForBatch callbacks at the leader
    flushes,                \* number of batches flushed by the leader
    now,                    \* Simulator::Now()
    finalized               \* RSU -> the rounds that reached the commit quorum, with
                            \* their voters and the outcome of AddBlockToChain

VARIABLES
    m_alpha,                \* reward rate of UpdateReputations
    m_beta,                 \* penalty rate of UpdateReputations
    m_activeClusters,       \* RSU -> (event id -> cluster of reports)
    m_vehicleReportHistory, \* RSU -> (vehicle id -> sequence of 1 / 0 outcomes)
    decisions,              \* RSU -> the credibility decisions taken, oldest first
    forwarded,              \* RSU -> transactions handed to ForwardTransactionToLeader
    reputationReply         \* the last Data sent in answer to a reputation request

VARIABLES
    m_batchBase,                \* B_base
    m_timeMax,                  \* flush timeout, in milliseconds
    m_currentTransactionRate,   \* lambda, in units of 1/RateScale transactions per second
    m_averageTransactionRate,   \* lambda_avg, same unit
    m_currentLatency,           \* L, in milliseconds
    m_networkCongestionFactor,  \* in units of 1/RepScale
    m_currentVehicleCount,      \* vehicle count of the last UpdateNetworkParameters
    m_latencyHistory,           \* sequence of recorded latencies, oldest first
    batchSizes,                 \* the results of CalculateAdaptiveBatchSize so far, each
                                \* with the B_base it was computed from
    batchSteps,                 \* number of batch-manager operations performed
    m_batchBuffer,              \* the transactions waiting for the next flush
    m_transactionArrivalTimes,  \* arrival times inside the rate window, oldest first
    m_adaptiveTimer,            \* pending flush-timer events (IsRunning() is > 0)
    m_lastBatchTime             \* time of the last flush

pbftVars == <<m_rsuList, faultMode, m_localBlockchain, m_pbftActiveConsensus, m_transactionPool,
              m_vehicleKeys, m_vehicleReputations, m_processedTransactionIds, sent,
              forged, proposeTimers, flushes, now, finalized>>

trustVars == <<m_alpha, m_beta, m_activeClusters, m_vehicleReportHistory, decisions, forwarded,
               reputationReply>>

batchVars == <<m_batchBase, m_timeMax, m_currentTransactionRate, m_averageTransactionRate,
               m_currentLatency, m_networkCongestionFactor, m_currentVehicleCount,
               m_latencyHistory, batchSizes, batchSteps, m_batchBuffer,
               m_transactionArrivalTimes, m_adaptiveTimer, m_lastBatchTime>>

bufferVars == <<m_batchBuffer, m_transactionArrivalTimes, m_adaptiveTimer, m_lastBatchTime>>

vars == <<pbftVars, trustVars, batchVars>>

\* ------------------------------------------------------------------------
\* Helpers on functions with a dynamic domain (std::map / unordered_map)
\* ------------------------------------------------------------------------
EmptyMap == [x \in {} |-> 0]
MapPut(f, k, v) == [x \in (DOMAIN f) \cup {k} |-> IF x = k THEN v ELSE f[x]]
MapErase(f, k) == [x \in (DOMAIN f) \ {k} |-> f[x]]
Last(s) == s[Len(s)]

RECURSIVE SeqFilter(_, _)
SeqFilter(s, keep) ==
    IF s = <<>> THEN <<>>
    ELSE IF Head(s) \in keep THEN <<Head(s)>> \o SeqFilter(Tail(s), keep)
    ELSE SeqFilter(Tail(s), keep)

\* ------------------------------------------------------------------------
\* Transactions and blocks (VanetBlock.hpp)
\* ------------------------------------------------------------------------
NoTx == [type |-> "NONE", timestamp |-> 0, vehicleId_reg |-> "", publicKey |-> "",
         initialReputation |-> Half, eventId_dec |-> "", eventVerdict |-> "",
         vehicleId_rep |-> "", eventId_rep |-> "", oldReputation |-> 0,
         newReputation |-> 0]

RegistrationTx(v, key, rep, t) ==
    [NoTx EXCEPT !.type = "REGISTRATION", !.timestamp = t, !.vehicleId_reg = v,
                 !.publicKey = key, !.initialReputation = rep]

ReputationUpdateTx(v, ev, old, new, t) ==
    [NoTx EXCEPT !.type = "REPUTATION_UPDATE", !.timestamp = t, !.vehicleId_rep = v,
                 !.eventId_rep = ev, !.oldReputation = old, !.newReputation = new]

EventDecisionTx(ev, verdict, t) ==
    [NoTx EXCEPT !.type = "EVENT_DECISION", !.timestamp = t, !.eventId_dec = ev,
                 !.eventVerdict = verdict]

\* Transaction::serialize: the string is modelled by the tuple of its ':' separated parts.
serialize(tx) ==
    IF tx.type = "REGISTRATION" THEN
        IF tx.vehicleId_reg = "" \/ tx.publicKey = ""
        THEN <<"REG", "ERROR", "ERROR", Half>>
        ELSE <<"REG", tx.vehicleId_reg, tx.publicKey, tx.initialReputation>>
    ELSE IF tx.type = "REPUTATION_UPDATE" THEN
        <<"REP", tx.vehicleId_rep, tx.oldReputation, tx.newReputation>>
    ELSE IF tx.type = "EVENT_DECISION" THEN
        <<"EVT", tx.eventId_dec, tx.eventVerdict>>
    ELSE <<"UNK", "UNKNOWN">>

\* The per-transaction parser of HandlePrePrepare / ParseAdaptiveBatch: only the
\* serialized fields survive, the timestamp is the time of receipt.
ParseTransaction(s, t) ==
    IF s[1] = "REG" THEN RegistrationTx(s[2], s[3], s[4], t)
    ELSE IF s[1] = "REP" THEN ReputationUpdateTx(s[2], "Unknown", s[3], s[4], t)
    ELSE EventDecisionTx(s[2], s[3], t)

Parsable(s) == s[1] \in {"REG", "REP", "EVT"}

SerializeAll(txs) == [k \in 1..Len(txs) |-> serialize(txs[k])]

RECURSIVE ParseAll(_, _)
ParseAll(ss, t) ==
    IF ss = <<>> THEN <<>>
    ELSE IF Parsable(Head(ss)) THEN <<ParseTransaction(Head(ss), t)>> \o ParseAll(Tail(ss), t)
    ELSE ParseAll(Tail(ss), t)

GenerateTransactionId(tx) ==
    <<tx.type, tx.timestamp,
      IF tx.type = "REGISTRATION" THEN tx.vehicleId_reg
      ELSE IF tx.type = "EVENT_DECISION" THEN tx.eventId_dec
      ELSE IF tx.type = "REPUTATION_UPDATE" THEN tx.vehicleId_rep
      ELSE "">>

calculateHash(b) ==
    <<b.height, b.timestamp, b.previousHash, b.proposerId, SerializeAll(b.transactions)>>

GenesisBlock ==
    LET g == [height |-> 0, timestamp |-> 0, previousHash |-> <<"zeros">>,
              proposerId |-> "Genesis", transactions |-> <<>>, blockHash |-> <<>>]
    IN [g EXCEPT !.blockHash = calculateHash(g)]

ValidateBlock(b) == b.blockHash = calculateHash(b)

\* ------------------------------------------------------------------------
\* Replica set and quorum (SetRsuList)
\* ------------------------------------------------------------------------
Rsus == {m_rsuList[k] : k \in 1..Len(m_rsuList)}
m_n_rsus == Len(m_rsuList)
m_f_rsus == IF m_n_rsus > 0 THEN (m_n_rsus - 1) \div 3 ELSE 0
Required == 2 * m_f_rsus + 1

\* The faulty replica, if there is one, is the last RSU of the list: it never
\* runs the handlers.  A silent one sends nothing, a byzantine one anything.
Faulty == IF faultMode = "none" THEN {} ELSE {m_rsuList[m_n_rsus]}
Honest == Rsus \ Faulty

\* ------------------------------------------------------------------------
\* Messages (NDN Interests under /vanet/pbft)
\* ------------------------------------------------------------------------
NoHash == <<>>
NoMsg == [type |-> "none", blockHash |-> NoHash, sender |-> "", height |-> 0,
          previousHash |-> NoHash, txs |-> <<>>]
PrePrepareMsg(b) ==
    [type |-> "pre-prepare", blockHash |-> b.blockHash, sender |-> b.proposerId,
     height |-> b.height, previousHash |-> b.previousHash,
     txs |-> SerializeAll(b.transactions)]
VoteMsg(kind, h, voter) ==
    [type |-> kind, blockHash |-> h, sender |-> voter, height |-> 0,
     previousHash |-> NoHash, txs |-> <<>>]
AdaptiveBatchMsg(from, batch) ==
    [type |-> "adaptive-transaction-batch", blockHash |-> NoHash, sender |-> from,
     height |-> 0, previousHash |-> NoHash, txs |-> SerializeAll(batch)]

\* Votes of a byzantine RSU, under its own name.  It may vote for any round at
\* any time; a vote that completes no quorum only joins a vote set, so the
\* model lets it vote exactly when its vote completes the quorum at i.
FaultyVotes(i) ==
    LET rounds == m_pbftActiveConsensus[i]
    IN {VoteMsg("prepare", h, f) : h \in {x \in DOMAIN rounds :
                                            rounds[x].phase < COMMIT_SENT}, f \in Faulty}
       \cup {VoteMsg("commit", h, f) : h \in DOMAIN rounds, f \in Faulty}

Completes(i, m) ==
    LET rounds == m_pbftActiveConsensus[i]
        votes == IF m.type = "prepare" THEN rounds[m.blockHash].prepareVotes
                 ELSE rounds[m.blockHash].commitVotes
    IN m.sender \notin votes /\ Cardinality(votes \cup {m.sender}) >= Required

\* The network delivers a broadcast Interest to every other RSU, in any order
\* and any number of times: i can receive any message broadcast so far by
\* another RSU, any pre-prepare of a byzantine RSU and any of its votes.
Receivable(i) ==
    {m \in sent : m.sender # i}
    \cup (IF faultMode = "byzantine"
          THEN forged \cup {m \in FaultyVotes(i) : Completes(i, m)} ELSE {})

ChainHashes(chain) == {chain[k].blockHash : k \in 1..Len(chain)}

\* ------------------------------------------------------------------------
\* AddBlockToChain: the new chain, key and reputation maps, and what happened
\* ------------------------------------------------------------------------
\* HandleKeyRequest: the content of the Data RSU i answers a key query with.
HandleKeyRequest(i, vehicleId_param) ==
    IF vehicleId_param \in DOMAIN m_vehicleKeys[i]
    THEN m_vehicleKeys[i][vehicleId_param]
    ELSE "NOT_FOUND"

\* A block's registrations left unapplied.
ApplyKeysSkipped(keys, txs) == keys

RECURSIVE ApplyKeys(_, _)
ApplyKeys(keys, txs) ==
    IF txs = <<>> THEN keys
    ELSE ApplyKeys(IF Head(txs).type = "REGISTRATION"
                   THEN MapPut(keys, Head(txs).vehicleId_reg, Head(txs).publicKey)
                   ELSE keys, Tail(txs))

RECURSIVE ApplyReputations(_, _)
ApplyReputations(reps, txs) ==
    IF txs = <<>> THEN reps
    ELSE ApplyReputations(
           IF Head(txs).type = "REGISTRATION"
           THEN MapPut(reps, Head(txs).vehicleId_reg, Head(txs).initialReputation)
           ELSE IF Head(txs).type = "REPUTATION_UPDATE"
           THEN MapPut(reps, Head(txs).vehicleId_rep, Head(txs).newReputation)
           ELSE reps, Tail(txs))

\* The two ways AddBlockToChain ends: the block is left out, or it is pushed to
\* the back of the chain and its transactions are applied to the vehicle maps.
LeftOut(chain, keys, reps, why) ==
    [chain |-> chain, keys |-> keys, reps |-> reps, outcome |-> why]

PushedBack(chain, keys, reps, block) ==
    [chain |-> Append(chain, block),
     keys |-> ApplyKeys(keys, block.transactions),
     reps |-> ApplyReputations(reps, block.transactions),
     outcome |-> "appended"]

\* AddBlockToChain without the comparison of previousHash with the tip.
AddBlockToChainUnlinked(chain, keys, reps, block) ==
    IF block.blockHash \in ChainHashes(chain)
    THEN LeftOut(chain, keys, reps, "duplicate")
    ELSE PushedBack(chain, keys, reps, block)

\* AddBlockToChain without the search for the hash in the chain.
AddBlockToChainAgain(chain, keys, reps, block) ==
    IF block.previousHash # Last(chain).blockHash
    THEN LeftOut(chain, keys, reps, "prevMismatch")
    ELSE PushedBack(chain, keys, reps, block)

\* AddBlockToChain storing the block over the tip instead of after it.
AddBlockToChainOverTip(chain, keys, reps, block) ==
    IF block.previousHash # Last(chain).blockHash
    THEN LeftOut(chain, keys, reps, "prevMismatch")
    ELSE IF block.blockHash \in ChainHashes(chain)
    THEN LeftOut(chain, keys, reps, "duplicate")
    ELSE PushedBack(SubSeq(chain, 1, Len(chain) - 1), keys, reps, block)

AddBlockToChain(chain, keys, reps, block) ==
    IF block.previousHash # Last(chain).blockHash
    THEN LeftOut(chain, keys, reps, "prevMismatch")
    ELSE IF block.blockHash \in ChainHashes(chain)
    THEN LeftOut(chain, keys, reps, "duplicate")
    ELSE PushedBack(chain, keys, reps, block)

\* A clean-up that empties the pool, whatever the block holds.
RemainingTxsCleared(pool, blockTxs) == <<>>

\* The pool clean-up of HandleCommit: keep the pool transactions whose
\* serialization equals that of no transaction of the block.
RECURSIVE RemainingTxs(_, _)
RemainingTxs(pool, blockTxs) ==
    IF pool = <<>> THEN <<>>
    ELSE IF \E k \in 1..Len(blockTxs) : serialize(Head(pool)) = serialize(blockTxs[k])
         THEN RemainingTxs(Tail(pool), blockTxs)
         ELSE <<Head(pool)>> \o RemainingTxs(Tail(pool), blockTxs)

\* ------------------------------------------------------------------------
\* Proposer path
\* ------------------------------------------------------------------------
CreateCandidateBlock(i) ==
    LET b == [height |-> Last(m_localBlockchain[i]).height + 1,
              timestamp |-> now,
              previousHash |-> Last(m_localBlockchain[i]).blockHash,
              proposerId |-> i,
              transactions |-> m_transactionPool[i],
              blockHash |-> NoHash]
    IN [b EXCEPT !.blockHash = calculateHash(b)]

\* StartPbft: the round created for a new block, with the proposer's self-votes.
StartPbft(i, newBlock) ==
    [phase |-> PRE_PREPARE_SENT, block |-> newBlock, proposerId |-> i,
     prepareVotes |-> {i}, commitVotes |-> {i}]

\* AdaptiveBatchManager::ProcessBatch at the leader, for a buffer holding `batch`:
\* broadcast the batch, add it to the own pool, schedule ProposeBlockForBatch.
NewTxs ==
    IF flushes = 0 THEN {RegistrationTx("V1", "K1", Half, now)}
    ELSE {ReputationUpdateTx("V1", "Evt_V1_0", Half, Half + (8 * (RepScale - Half)) \div 100, now)}

ProcessBatch ==
    /\ flushes < MaxFlushes
    /\ \E tx \in NewTxs :
         /\ GenerateTransactionId(tx) \notin m_processedTransactionIds
         /\ m_processedTransactionIds' = m_processedTransactionIds \cup {GenerateTransactionId(tx)}
         /\ m_transactionPool' = [m_transactionPool EXCEPT ![Leader] = @ \o <<tx>>]
         /\ sent' = sent \cup {AdaptiveBatchMsg(Leader, <<tx>>)}
    /\ proposeTimers' = proposeTimers + 1
    /\ flushes' = flushes + 1
    /\ UNCHANGED <<trustVars, batchVars>>
    /\ UNCHANGED <<m_rsuList, faultMode, m_localBlockchain, m_pbftActiveConsensus, m_vehicleKeys,
                   m_vehicleReputations, forged, now, finalized>>

\* ProposeBlockForBatch without the test for a round at the next height.
ProposeBlockForBatchUnguarded ==
    /\ proposeTimers > 0
    /\ proposeTimers' = proposeTimers - 1
    /\ LET i == Leader
           newBlock == CreateCandidateBlock(i)
       IN IF m_transactionPool[i] = <<>> \/ newBlock.blockHash \in DOMAIN m_pbftActiveConsensus[i]
          THEN UNCHANGED <<m_pbftActiveConsensus, sent>>
          ELSE /\ m_pbftActiveConsensus' =
                     [m_pbftActiveConsensus EXCEPT
                        ![i] = MapPut(@, newBlock.blockHash, StartPbft(i, newBlock))]
               /\ sent' = sent \cup {PrePrepareMsg(newBlock)}
    /\ UNCHANGED <<trustVars, batchVars>>
    /\ UNCHANGED <<m_rsuList, faultMode, m_localBlockchain, m_transactionPool, m_vehicleKeys,
                   m_vehicleReputations, m_processedTransactionIds, forged, flushes,
                   now, finalized>>

ProposeBlockForBatch ==
    /\ proposeTimers > 0
    /\ proposeTimers' = proposeTimers - 1
    /\ LET i == Leader
           nextHeight == Last(m_localBlockchain[i]).height + 1
           rounds == m_pbftActiveConsensus[i]
           newBlock == CreateCandidateBlock(i)
       IN IF \/ m_transactionPool[i] = <<>>
             \/ \E h \in DOMAIN rounds : rounds[h].block.height = nextHeight
             \/ newBlock.blockHash \in DOMAIN rounds
          THEN UNCHANGED <<m_pbftActiveConsensus, sent>>
          ELSE /\ m_pbftActiveConsensus' =
                     [m_pbftActiveConsensus EXCEPT
                        ![i] = MapPut(@, newBlock.blockHash, StartPbft(i, newBlock))]
               /\ sent' = sent \cup {PrePrepareMsg(newBlock)}
    /\ UNCHANGED <<trustVars, batchVars>>
    /\ UNCHANGED <<m_rsuList, faultMode, m_localBlockchain, m_transactionPool, m_vehicleKeys,
                   m_vehicleReputations, m_processedTransactionIds, forged, flushes,
                   now, finalized>>

\* ------------------------------------------------------------------------
\* Validator path
\* ------------------------------------------------------------------------
\* The block a validator builds from a pre-prepare: fields of the payload, the
\* announced hash and proposer taken from the Interest name, the time of receipt.
ReceivedBlock(m) ==
    [height |-> m.height, timestamp |-> now, previousHash |-> m.previousHash,
     proposerId |-> m.sender, transactions |-> ParseAll(m.txs, now),
     blockHash |-> m.blockHash]

\* The checks of HandlePrePrepare without the one of the proposer's name
\* against "RSU-0".
PrePrepareAcceptedFromAnyone(i, m) ==
    /\ m.sender # i
    /\ m.blockHash \notin DOMAIN m_pbftActiveConsensus[i]
    /\ m.previousHash = Last(m_localBlockchain[i]).blockHash

\* The checks of HandlePrePrepare without the one for a round the RSU already
\* holds, so that a pre-prepare delivered again starts the round afresh.
PrePrepareAcceptedOverRound(i, m) ==
    /\ m.sender # i
    /\ m.sender = Leader
    /\ m.previousHash = Last(m_localBlockchain[i]).blockHash

PrePrepareAccepted(i, m) ==
    /\ m.sender # i
    /\ m.sender = Leader
    /\ m.blockHash \notin DOMAIN m_pbftActiveConsensus[i]
    /\ m.previousHash = Last(m_localBlockchain[i]).blockHash

\* HandlePrePrepare followed, on acceptance, by BroadcastPrepare: what it does
\* to the rounds of i and to the network.
PrePrepareEffect(i, m) ==
    IF PrePrepareAccepted(i, m)
    THEN /\ m_pbftActiveConsensus' =
               [m_pbftActiveConsensus EXCEPT
                  ![i] = MapPut(@, m.blockHash,
                                [phase |-> PREPARE_SENT, block |-> ReceivedBlock(m),
                                 proposerId |-> m.sender, prepareVotes |-> {i},
                                 commitVotes |-> {}])]
         /\ sent' = sent \cup {VoteMsg("prepare", m.blockHash, i)}
    ELSE /\ UNCHANGED m_pbftActiveConsensus
         /\ UNCHANGED sent

HandlePrePrepare(i, m) ==
    /\ m.type = "pre-prepare"
    /\ PrePrepareEffect(i, m)
    /\ UNCHANGED <<trustVars, batchVars>>
    /\ UNCHANGED <<m_rsuList, faultMode, m_localBlockchain, m_transactionPool, m_vehicleKeys,
                   m_vehicleReputations, m_processedTransactionIds, forged, proposeTimers,
                   flushes, now, finalized>>

\* HandlePrepare keeping a tally of the votes received instead of looking the
\* voter up among the recorded ones.
HandlePrepareTallying(i, m) ==
    /\ m.type = "prepare"
    /\ LET rounds == m_pbftActiveConsensus[i]
           h == m.blockHash
       IN IF h \notin DOMAIN rounds
          THEN /\ UNCHANGED m_pbftActiveConsensus
               /\ UNCHANGED sent
          ELSE LET votes == rounds[h].prepareVotes \cup {m.sender}
               IN IF Cardinality(rounds[h].prepareVotes) + 1 >= Required
                     /\ rounds[h].phase < COMMIT_SENT
                  THEN /\ m_pbftActiveConsensus' =
                             [m_pbftActiveConsensus EXCEPT
                                ![i][h] = [@ EXCEPT !.prepareVotes = votes,
                                                    !.phase = COMMIT_SENT,
                                                    !.commitVotes = @ \cup {i}]]
                       /\ sent' = sent \cup {VoteMsg("commit", h, i)}
                  ELSE /\ m_pbftActiveConsensus' =
                             [m_pbftActiveConsensus EXCEPT ![i][h].prepareVotes = votes]
                       /\ UNCHANGED sent
    /\ UNCHANGED <<trustVars, batchVars>>
    /\ UNCHANGED <<m_rsuList, faultMode, m_localBlockchain, m_transactionPool, m_vehicleKeys,
                   m_vehicleReputations, m_processedTransactionIds, forged, proposeTimers,
                   flushes, now, finalized>>

\* HandlePrepare followed, on reaching the quorum, by BroadcastCommit.
HandlePrepare(i, m) ==
    /\ m.type = "prepare"
    /\ LET rounds == m_pbftActiveConsensus[i]
           h == m.blockHash
       IN IF h \notin DOMAIN rounds \/ m.sender \in rounds[h].prepareVotes
          THEN /\ UNCHANGED m_pbftActiveConsensus
               /\ UNCHANGED sent
          ELSE LET votes == rounds[h].prepareVotes \cup {m.sender}
               IN IF Cardinality(votes) >= Required /\ rounds[h].phase < COMMIT_SENT
                  THEN /\ m_pbftActiveConsensus' =
                             [m_pbftActiveConsensus EXCEPT
                                ![i][h] = [@ EXCEPT !.prepareVotes = votes,
                                                    !.phase = COMMIT_SENT,
                                                    !.commitVotes = @ \cup {i}]]
                       /\ sent' = sent \cup {VoteMsg("commit", h, i)}
                  ELSE /\ m_pbftActiveConsensus' =
                             [m_pbftActiveConsensus EXCEPT ![i][h].prepareVotes = votes]
                       /\ UNCHANGED sent
    /\ UNCHANGED <<trustVars, batchVars>>
    /\ UNCHANGED <<m_rsuList, faultMode, m_localBlockchain, m_transactionPool, m_vehicleKeys,
                   m_vehicleReputations, m_processedTransactionIds, forged, proposeTimers,
                   flushes, now, finalized>>

\* HandleCommit: count the vote; on the quorum finalize the block, clean the
\* pool and destroy the round.
HandleCommit(i, m) ==
    /\ m.type = "commit"
    /\ UNCHANGED sent
    /\ LET rounds == m_pbftActiveConsensus[i]
           h == m.blockHash
       IN IF \/ h \notin DOMAIN rounds
             \/ rounds[h].phase = COMMITTED
             \/ m.sender \in rounds[h].commitVotes
          THEN UNCHANGED <<m_pbftActiveConsensus, m_localBlockchain, m_transactionPool,
                           m_vehicleKeys, m_vehicleReputations, finalized>>
          ELSE LET votes == rounds[h].commitVotes \cup {m.sender}
                   added == AddBlockToChain(m_localBlockchain[i], m_vehicleKeys[i],
                                            m_vehicleReputations[i], rounds[h].block)
               IN IF Cardinality(votes) >= Required
                  THEN /\ m_localBlockchain' = [m_localBlockchain EXCEPT ![i] = added.chain]
                       /\ m_vehicleKeys' = [m_vehicleKeys EXCEPT ![i] = added.keys]
                       /\ m_vehicleReputations' =
                             [m_vehicleReputations EXCEPT ![i] = added.reps]
                       /\ m_transactionPool' =
                             [m_transactionPool EXCEPT
                                ![i] = RemainingTxs(@, rounds[h].block.transactions)]
                       /\ m_pbftActiveConsensus' =
                             [m_pbftActiveConsensus EXCEPT ![i] = MapErase(@, h)]
                       /\ finalized' = [finalized EXCEPT
                                          ![i] = @ \cup {[hash |-> h, voters |-> votes,
                                                          prepareVoters |-> rounds[h].prepareVotes,
                                                          outcome |-> added.outcome]}]
                  ELSE /\ m_pbftActiveConsensus' =
                             [m_pbftActiveConsensus EXCEPT ![i][h].commitVotes = votes]
                       /\ UNCHANGED <<m_localBlockchain, m_transactionPool, m_vehicleKeys,
                                      m_vehicleReputations, finalized>>
    /\ UNCHANGED <<trustVars, batchVars>>
    /\ UNCHANGED <<m_rsuList, faultMode, m_processedTransactionIds, forged, proposeTimers, flushes, now>>

\* HandleAdaptiveBatch at a follower: add the parsed transactions the pool
\* does not hold yet (compared by serialization).
RECURSIVE AddNewToPool(_, _)
AddNewToPool(pool, txs) ==
    IF txs = <<>> THEN pool
    ELSE IF \E k \in 1..Len(pool) : serialize(pool[k]) = serialize(Head(txs))
         THEN AddNewToPool(pool, Tail(txs))
         ELSE AddNewToPool(Append(pool, Head(txs)), Tail(txs))

HandleAdaptiveBatch(i, m) ==
    /\ m.type = "adaptive-transaction-batch"
    /\ UNCHANGED sent
    /\ IF i = Leader \/ m.sender # Leader \/ m.txs = <<>>
       THEN UNCHANGED m_transactionPool
       ELSE m_transactionPool' =
               [m_transactionPool EXCEPT ![i] = AddNewToPool(@, ParseAll(m.txs, now))]
    /\ UNCHANGED <<trustVars, batchVars>>
    /\ UNCHANGED <<m_rsuList, faultMode, m_localBlockchain, m_pbftActiveConsensus, m_vehicleKeys,
                   m_vehicleReputations, m_processedTransactionIds, forged, proposeTimers,
                   flushes, now, finalized>>

\* ------------------------------------------------------------------------
\* Event reports, clusters and the credibility engine
\* ------------------------------------------------------------------------
Vehicles == {"V1", "V2"}
EventTypes == {"Accident", "Jam"}
\* Key order of the claimed labels in std::map<std::string, double>.
ClaimOrder == [c \in EventTypes |-> IF c = "Accident" THEN 1 ELSE 2]
VehicleKey(v) == IF v = "V1" THEN "K1" ELSE "K2"
\* The RSUs in radio range of the reporting vehicles.
Observers == {"RSU-1"}

HISTORY_WINDOW_N == 20
m_distanceThreshold == 50
m_timeThreshold == 10
WEIGHT_RPF == (6 * RepScale) \div 10
WEIGHT_VOL == (4 * RepScale) \div 10
DECAY_GAMMA == [num |-> 9, den |-> 10]
CONFIDENCE_THRESHOLD_TAU == [num |-> 70, den |-> 100]
\* 1.0 and 1e-6 in the unit of a trust factor (a reputation times 1 - suspicion).
UnitT == RepScale * RepScale
Epsilon == IF UnitT \div 1000000 > 1 THEN UnitT \div 1000000 ELSE 1

Min2(a, b) == IF a < b THEN a ELSE b
Max2(a, b) == IF a > b THEN a ELSE b
Abs(a) == IF a < 0 THEN -a ELSE a

RECURSIVE SumTo(_, _)
SumTo(f, n) == IF n = 0 THEN 0 ELSE f[n] + SumTo(f, n - 1)
SumSeq(f) == SumTo(f, Len(f))

RECURSIVE SumOver(_, _)
SumOver(f, S) ==
    IF S = {} THEN 0
    ELSE LET x == CHOOSE y \in S : TRUE IN f[x] + SumOver(f, S \ {x})

\* The signature VerifyVehicleSignature expects is a function of the report's
\* public fields only.
ExpectedSignature(v, claim) == <<"Sig", v, claim>>

\* A report made at position `place` (metres along the road) at time `time`
\* (seconds).
PlacedReport(v, claim, original, place, time, sig) ==
    [vehicleId |-> v, reportedEventType |-> claim, originalEventType |-> original,
     location |-> place, timestamp |-> time, signature |-> sig]

\* Reports of one place and one instant: every pair of them is within the
\* distance and time thresholds of FindMatchingCluster.
EventReport(v, claim, original, sig) == PlacedReport(v, claim, original, 0, 0, sig)

BadSignature == <<"Sig", "", "">>
Reports ==
    UNION {{EventReport(v, c, "Accident", s) : s \in {ExpectedSignature(v, c), BadSignature}} :
              v \in Vehicles, c \in EventTypes}

\* The signature check without the look-up of the reporter's key.
VerifyVehicleSignatureOfAnyone(i, report) ==
    report.signature = ExpectedSignature(report.vehicleId, report.reportedEventType)

VerifyVehicleSignature(i, report) ==
    /\ report.vehicleId \in DOMAIN m_vehicleKeys[i]
    /\ report.signature = ExpectedSignature(report.vehicleId, report.reportedEventType)

NoCluster == <<>>
EventId(report) == <<"Evt", report.vehicleId, report.timestamp>>
\* Key order of the event ids in std::map<std::string, EventCluster>.
\* The event id ends in the decimal numeral of the timestamp in nanoseconds;
\* std::string comparison orders the numerals of times below 100 s like this.
TimestampOrder(t) == IF t < 10 THEN 20 * t ELSE 2 * t + 1
EventIdOrder(id) == (IF id[2] = "V1" THEN 1 ELSE 2) * 1000 + TimestampOrder(id[3])

TypeMatch(a, b) ==
    \/ a = b
    \/ {a, b} \in {{"Accident", "Breakdown"}, {"Jam", "Construction"},
                   {"Roadwork", "Construction"}}

FindMatchingCluster(i, report) ==
    LET clusters == m_activeClusters[i]
        matching == {id \in DOMAIN clusters :
                        /\ ~clusters[id].decisionMade
                        /\ TypeMatch(report.originalEventType, clusters[id].eventType)
                        /\ Abs(report.location - clusters[id].centerLocation)
                               < m_distanceThreshold
                        /\ Abs(report.timestamp - clusters[id].centerTime) < m_timeThreshold}
    IN IF matching = {} THEN NoCluster
       ELSE CHOOSE id \in matching : \A other \in matching : EventIdOrder(id) <= EventIdOrder(other)

NewCluster(report) ==
    [eventId |-> EventId(report), eventType |-> report.originalEventType,
     centerLocation |-> report.location, centerTime |-> report.timestamp,
     reports |-> <<report>>, decisionMade |-> FALSE]

\* pow(DECAY_GAMMA, e) in units of 1/RepScale.
RECURSIVE Weight(_)
Weight(e) == IF e = 0 THEN RepScale ELSE (Weight(e - 1) * DECAY_GAMMA.num) \div DECAY_GAMMA.den

\* The recent performance factor of a non-empty history, in units of 1/RepScale.
RPF(history) ==
    LET N == Len(history)
        numerator_rpf == SumSeq([k \in 1..N |-> history[k] * Weight(N - k)])
        denominator_rpf == SumSeq([k \in 1..N |-> Weight(N - k)])
    IN IF denominator_rpf > 0 THEN (RepScale * numerator_rpf) \div denominator_rpf ELSE 0

\* CalculateSuspicionScore weighting the performance factor itself instead of
\* its complement.
CalculateSuspicionScoreOfSuccess(history) ==
    IF history = <<>> THEN 0
    ELSE LET N == Len(history)
             volatility_sum == SumSeq([k \in 1..(N - 1) |-> Abs(history[k + 1] - history[k])])
             F_vol == IF N > 1 THEN (RepScale * volatility_sum) \div (N - 1) ELSE 0
         IN (WEIGHT_RPF * RPF(history)) \div RepScale + (WEIGHT_VOL * F_vol) \div RepScale

CalculateSuspicionScore(history) ==
    IF history = <<>> THEN 0
    ELSE LET N == Len(history)
             volatility_sum == SumSeq([k \in 1..(N - 1) |-> Abs(history[k + 1] - history[k])])
             F_vol == IF N > 1 THEN (RepScale * volatility_sum) \div (N - 1) ELSE 0
         IN (WEIGHT_RPF * (RepScale - RPF(history))) \div RepScale
            + (WEIGHT_VOL * F_vol) \div RepScale

\* The history update without the eviction of the oldest outcome.
UpdateLocalHistoryUnbounded(history, isCorrect) ==
    Append(history, IF isCorrect THEN 1 ELSE 0)

UpdateLocalHistory(history, isCorrect) ==
    LET pushed == Append(history, IF isCorrect THEN 1 ELSE 0)
    IN IF Len(pushed) > HISTORY_WINDOW_N THEN Tail(pushed) ELSE pushed

HistoryOf(hist, v) == IF v \in DOMAIN hist THEN hist[v] ELSE <<>>
ReputationOf(reps, v) == IF v \in DOMAIN reps THEN reps[v] ELSE Half

\* The verdict with a test that also validates a confidence equal to tau.
VerdictFromThreshold(C_max, confDen) ==
    IF C_max * CONFIDENCE_THRESHOLD_TAU.den >= CONFIDENCE_THRESHOLD_TAU.num * confDen
    THEN "VALIDATED" ELSE "UNCERTAIN"

\* The verdict for the winning confidence C_max / confDen.
Verdict(C_max, confDen) ==
    IF C_max * CONFIDENCE_THRESHOLD_TAU.den > CONFIDENCE_THRESHOLD_TAU.num * confDen
    THEN "VALIDATED" ELSE "UNCERTAIN"

\* CalculateEventCredibility up to the verdict.  Normalised trust scores and
\* confidences are exact fractions: tnorm[k] / normDen and num / confDen.
CalculateEventCredibility(reps, hist, cluster) ==
    LET reports == cluster.reports
        n == Len(reports)
        T_factor(v) == ReputationOf(reps, v) * (RepScale - CalculateSuspicionScore(HistoryOf(hist, v)))
        factors == {T_factor(reports[k].vehicleId) : k \in 1..n}
        T_min == CHOOSE x \in factors \cup {UnitT} : \A y \in factors \cup {UnitT} : x <= y
        T_max == CHOOSE x \in factors \cup {0} : \A y \in factors \cup {0} : x >= y
        equal == Abs(T_max - T_min) < Epsilon
        normDen == IF equal THEN 2 ELSE T_max - T_min
        tnorm == [k \in 1..n |-> IF equal THEN 1 ELSE T_factor(reports[k].vehicleId) - T_min]
        sumT_all == SumSeq(tnorm)
        claims == {reports[k].reportedEventType : k \in 1..n}
        sumT_supporters(c) ==
            SumSeq([k \in 1..n |-> IF reports[k].reportedEventType = c THEN tnorm[k] ELSE 0])
        confDen == IF sumT_all > 0 THEN sumT_all ELSE 1
        claimConfidenceMap == [c \in claims |-> IF sumT_all > 0 THEN sumT_supporters(c) ELSE 0]
        winningClaim ==
            CHOOSE c \in claims : \A d \in claims :
                \/ claimConfidenceMap[c] > claimConfidenceMap[d]
                \/ claimConfidenceMap[c] = claimConfidenceMap[d] /\ ClaimOrder[c] <= ClaimOrder[d]
        C_max == claimConfidenceMap[winningClaim]
    IN [eventId |-> cluster.eventId, reports |-> reports,
        histories |-> [k \in 1..n |-> HistoryOf(hist, reports[k].vehicleId)],
        R_suspicion |-> [k \in 1..n |->
                            CalculateSuspicionScore(HistoryOf(hist, reports[k].vehicleId))],
        sumT_all |-> sumT_all, normDen |-> normDen,
        claimConfidenceMap |-> claimConfidenceMap, confDen |-> confDen,
        winningClaim |-> winningClaim, C_max |-> C_max,
        verdict |-> Verdict(C_max, confDen)]

\* The reputation UpdateReputations stores for one report of a validated cluster.
UnclampedReputation(oldRep, isCorrect) ==
    oldRep + (IF isCorrect THEN (m_alpha * (RepScale - oldRep)) \div RepScale
                           ELSE -((m_beta * oldRep) \div RepScale))

\* UpdateReputations without the limitation of the result to [0,1].
NewReputationUnclamped(oldRep, isCorrect) == UnclampedReputation(oldRep, isCorrect)

\* UpdateReputations with the reward and penalty rates exchanged.
NewReputationRatesExchanged(oldRep, isCorrect) ==
    Max2(0, Min2(RepScale,
                 oldRep + (IF isCorrect THEN (m_beta * (RepScale - oldRep)) \div RepScale
                                        ELSE -((m_alpha * oldRep) \div RepScale))))

NewReputation(oldRep, isCorrect) ==
    Max2(0, Min2(RepScale, UnclampedReputation(oldRep, isCorrect)))

\* UpdateReputations judging a report by its original label instead of the
\* label it claims.
RECURSIVE UpdateReputationsByOriginalLabel(_, _, _, _, _, _)
UpdateReputationsByOriginalLabel(reps, hist, txs, eventId, reports, groundTruth) ==
    IF reports = <<>> THEN [reps |-> reps, hist |-> hist, txs |-> txs]
    ELSE LET v == Head(reports).vehicleId
             oldRep == ReputationOf(reps, v)
             isCorrect == Head(reports).originalEventType = groundTruth
             newRep == NewReputation(oldRep, isCorrect)
         IN UpdateReputationsByOriginalLabel(
                MapPut(reps, v, newRep),
                MapPut(hist, v, UpdateLocalHistory(HistoryOf(hist, v), isCorrect)),
                Append(txs, ReputationUpdateTx(v, eventId, oldRep, newRep, now)),
                eventId, Tail(reports), groundTruth)

\* UpdateReputations: the reports are handled in order, each one reading the
\* reputation the previous ones left.
RECURSIVE UpdateReputations(_, _, _, _, _, _)
UpdateReputations(reps, hist, txs, eventId, reports, groundTruth) ==
    IF reports = <<>> THEN [reps |-> reps, hist |-> hist, txs |-> txs]
    ELSE LET v == Head(reports).vehicleId
             oldRep == ReputationOf(reps, v)
             isCorrect == Head(reports).reportedEventType = groundTruth
             newRep == NewReputation(oldRep, isCorrect)
         IN UpdateReputations(MapPut(reps, v, newRep),
                              MapPut(hist, v, UpdateLocalHistory(HistoryOf(hist, v), isCorrect)),
                              Append(txs, ReputationUpdateTx(v, eventId, oldRep, newRep, now)),
                              eventId, Tail(reports), groundTruth)

\* The reports RSU i has accepted so far: those of its decisions and those
\* waiting in undecided clusters.
ReportsHeld(i) ==
    SumSeq([k \in 1..Len(decisions[i]) |-> Len(decisions[i][k].reports)])
    + SumOver([id \in DOMAIN m_activeClusters[i] |->
                  IF m_activeClusters[i][id].decisionMade THEN 0
                  ELSE Len(m_activeClusters[i][id].reports)],
              DOMAIN m_activeClusters[i])

ProcessEventReport(i, report) ==
    /\ i \in Observers \cap Honest
    /\ ReportsHeld(i) < MaxReports
    /\ IF ~VerifyVehicleSignature(i, report)
       THEN UNCHANGED m_activeClusters
       ELSE LET clusterId == FindMatchingCluster(i, report)
            IN IF clusterId = NoCluster
               THEN m_activeClusters' =
                        [m_activeClusters EXCEPT ![i] = MapPut(@, EventId(report), NewCluster(report))]
               ELSE m_activeClusters' =
                        [m_activeClusters EXCEPT ![i][clusterId].reports = Append(@, report)]
    /\ UNCHANGED <<m_alpha, m_beta, m_vehicleReportHistory, decisions, forwarded,
                   reputationReply>>
    /\ UNCHANGED <<pbftVars, batchVars>>

\* CheckCluster with an UpdateReputations that does not return early on a
\* verdict other than VALIDATED.
CheckClusterUpdatingAlways(i, eventId) ==
    /\ i \in Observers \cap Honest
    /\ eventId \in DOMAIN m_activeClusters[i]
    /\ ~m_activeClusters[i][eventId].decisionMade
    /\ LET cluster == m_activeClusters[i][eventId]
           decision == CalculateEventCredibility(m_vehicleReputations[i],
                                                 m_vehicleReportHistory[i], cluster)
           decisionTx == EventDecisionTx(eventId, decision.verdict, now)
           updated == UpdateReputations(m_vehicleReputations[i], m_vehicleReportHistory[i],
                                        <<>>, eventId, cluster.reports, decision.winningClaim)
       IN /\ m_activeClusters' = [m_activeClusters EXCEPT ![i][eventId].decisionMade = TRUE]
          /\ m_vehicleReputations' = [m_vehicleReputations EXCEPT ![i] = updated.reps]
          /\ m_vehicleReportHistory' = [m_vehicleReportHistory EXCEPT ![i] = updated.hist]
          /\ decisions' = [decisions EXCEPT ![i] = Append(@, decision)]
          /\ forwarded' = [forwarded EXCEPT ![i] = @ \o <<decisionTx>> \o updated.txs]
    /\ UNCHANGED <<m_alpha, m_beta, reputationReply>>
    /\ UNCHANGED <<m_rsuList, faultMode, m_localBlockchain, m_pbftActiveConsensus,
                   m_transactionPool, m_vehicleKeys, m_processedTransactionIds, sent, forged,
                   proposeTimers, flushes, now, finalized>>
    /\ UNCHANGED batchVars

\* CheckCluster with the CalculateEventCredibility and UpdateReputations it calls.
CheckCluster(i, eventId) ==
    /\ i \in Observers \cap Honest
    /\ eventId \in DOMAIN m_activeClusters[i]
    /\ ~m_activeClusters[i][eventId].decisionMade
    /\ LET cluster == m_activeClusters[i][eventId]
           decision == CalculateEventCredibility(m_vehicleReputations[i],
                                                 m_vehicleReportHistory[i], cluster)
           decisionTx == EventDecisionTx(eventId, decision.verdict, now)
           updated == IF decision.verdict = "VALIDATED"
                      THEN UpdateReputations(m_vehicleReputations[i], m_vehicleReportHistory[i],
                                             <<>>, eventId, cluster.reports, decision.winningClaim)
                      ELSE [reps |-> m_vehicleReputations[i], hist |-> m_vehicleReportHistory[i],
                            txs |-> <<>>]
       IN /\ m_activeClusters' = [m_activeClusters EXCEPT ![i][eventId].decisionMade = TRUE]
          /\ m_vehicleReputations' = [m_vehicleReputations EXCEPT ![i] = updated.reps]
          /\ m_vehicleReportHistory' = [m_vehicleReportHistory EXCEPT ![i] = updated.hist]
          /\ decisions' = [decisions EXCEPT ![i] = Append(@, decision)]
          /\ forwarded' = [forwarded EXCEPT ![i] = @ \o <<decisionTx>> \o updated.txs]
    /\ UNCHANGED <<m_alpha, m_beta, reputationReply>>
    /\ UNCHANGED <<m_rsuList, faultMode, m_localBlockchain, m_pbftActiveConsensus,
                   m_transactionPool, m_vehicleKeys, m_processedTransactionIds, sent, forged,
                   proposeTimers, flushes, now, finalized>>
    /\ UNCHANGED batchVars

\* std::to_string of a double: sign, integer part and six decimals.
to_string(x) ==
    [negative |-> x < 0, units |-> Abs(x) \div RepScale,
     millionths |-> ((Abs(x) % RepScale) * 1000000) \div RepScale]

\* HandleReputationRequest: the Data names the queried vehicle and carries the
\* stored reputation, or -1.0 if the RSU stores none for that vehicle.
HandleReputationRequest(i, vehicleId) ==
    /\ i \in Honest
    /\ LET stored == vehicleId \in DOMAIN m_vehicleReputations[i]
           reputation == IF stored THEN m_vehicleReputations[i][vehicleId] ELSE -RepScale
       IN reputationReply' = [rsu |-> i, vehicleId |-> vehicleId, stored |-> stored,
                              content |-> to_string(reputation)]
    /\ UNCHANGED <<m_alpha, m_beta, m_activeClusters, m_vehicleReportHistory, decisions,
                   forwarded>>
    /\ UNCHANGED <<pbftVars, batchVars>>

\* ------------------------------------------------------------------------
\* The adaptive batch manager (leader)
\* ------------------------------------------------------------------------
\* Latencies and the flush timeout are in milliseconds, rates in units of
\* 1/RateScale transactions per second, the congestion factor in 1/RepScale.
m_batchMin == 50
m_batchMax == 200
m_latencyMax == 3000
m_arrivalRateWindow == 30
MAX_LATENCY_HISTORY == 50
LATENCY_UPPER_THRESHOLD_RATIO == [num |-> 75, den |-> 100]
LATENCY_LOWER_THRESHOLD_RATIO == [num |-> 25, den |-> 100]
CONGESTION_FACTOR_ALPHA == [num |-> 7, den |-> 10]
TRANSACTION_RATE_ALPHA == [num |-> 8, den |-> 10]

\* Sizes of the arrival window, vehicle counts and reported latencies fed to
\* the manager.
ArrivalCounts == {1, 60, 30000}
VehicleCounts == {0, 1000}
AverageLatencies == {0, 5000}

\* floor(x * a / b) for x, a >= 0 and b > 0, without forming x * a.
MulDiv(x, a, b) == (x \div b) * a + ((x % b) * a) \div b

\* exp(-x) in thousandths for x in thousandths: linear interpolation between
\* the tabulated points, 0 beyond the last one.
ExpTable == <<[x |-> 0, y |-> 1000], [x |-> 250, y |-> 779], [x |-> 500, y |-> 607],
              [x |-> 750, y |-> 472], [x |-> 1000, y |-> 368], [x |-> 1500, y |-> 223],
              [x |-> 2000, y |-> 135], [x |-> 3000, y |-> 50], [x |-> 5000, y |-> 7],
              [x |-> 10000, y |-> 0]>>

ExpNeg(x) ==
    IF x >= Last(ExpTable).x THEN 0
    ELSE LET k == CHOOSE j \in 1..(Len(ExpTable) - 1) : ExpTable[j].x <= x /\ x < ExpTable[j + 1].x
             lo == ExpTable[k]
             hi == ExpTable[k + 1]
         IN lo.y - ((lo.y - hi.y) * (x - lo.x)) \div (hi.x - lo.x)

\* CalculateAdaptiveBatchSize as a function of the five quantities it reads;
\* rawBatchSize is in thousandths of a transaction.
RawBatchSize(base, rate, avg, latency, congestion) ==
    LET rateRatio == IF avg > 0 THEN MulDiv(rate, 1000, avg) ELSE 1000
        latencyFactor == ExpNeg((latency * 1000) \div m_latencyMax)
        scaled == MulDiv(base * rateRatio, latencyFactor, 1000)
    IN MulDiv(scaled, RepScale, congestion)

\* CalculateAdaptiveBatchSize without the std::min against B_max.
CalculateAdaptiveBatchSizeUncapped(base, rate, avg, latency, congestion) ==
    Max2(m_batchMin * 1000, RawBatchSize(base, rate, avg, latency, congestion)) \div 1000

CalculateAdaptiveBatchSize(base, rate, avg, latency, congestion) ==
    Min2(m_batchMax * 1000,
         Max2(m_batchMin * 1000, RawBatchSize(base, rate, avg, latency, congestion))) \div 1000

\* UpdateTransactionArrivalRate for an arrival window holding `arrivals` times;
\* the window spans m_arrivalRateWindow seconds by construction.
UpdateTransactionArrivalRate(arrivals) ==
    IF arrivals < 2
    THEN [rate |-> m_currentTransactionRate, avg |-> m_averageTransactionRate]
    ELSE LET instantRate == (arrivals * RateScale) \div m_arrivalRateWindow
             rate == IF m_currentTransactionRate = 0 THEN instantRate
                     ELSE (TRANSACTION_RATE_ALPHA.num * m_currentTransactionRate
                           + (TRANSACTION_RATE_ALPHA.den - TRANSACTION_RATE_ALPHA.num) * instantRate)
                          \div TRANSACTION_RATE_ALPHA.den
             avg == IF m_averageTransactionRate = 0 THEN rate
                    ELSE (95 * m_averageTransactionRate + 5 * rate) \div 100
         IN [rate |-> rate, avg |-> avg]

\* The latency estimate of UpdateCurrentLatency.
EstimatedLatency(rate) ==
    LET baseLatency == 500
        congestionLatency == (baseLatency * m_networkCongestionFactor) \div RepScale
        rateLatency == congestionLatency + MulDiv(rate, congestionLatency, 100 * RateScale)
        densityLatency == rateLatency + (rateLatency * m_currentVehicleCount) \div 1000
    IN Min2(m_latencyMax, densityLatency)

PushLatency(history, latency) ==
    LET pushed == Append(history, latency)
    IN IF Len(pushed) > MAX_LATENCY_HISTORY THEN Tail(pushed) ELSE pushed

\* The parameter updates of AddTransaction for a transaction that is buffered:
\* arrival rate, latency estimate, then the adaptive target size.
AddTransactionUpdate(arrivals) ==
    /\ batchSteps < MaxBatchSteps
    /\ LET rates == UpdateTransactionArrivalRate(arrivals)
           latency == EstimatedLatency(rates.rate)
       IN /\ m_currentTransactionRate' = rates.rate
          /\ m_averageTransactionRate' = rates.avg
          /\ m_currentLatency' = latency
          /\ m_latencyHistory' = PushLatency(m_latencyHistory, latency)
          /\ batchSizes' = Append(batchSizes,
                [base |-> m_batchBase,
                 size |-> CalculateAdaptiveBatchSize(m_batchBase, rates.rate, rates.avg, latency,
                                                     m_networkCongestionFactor)])
    /\ batchSteps' = batchSteps + 1
    /\ UNCHANGED <<m_batchBase, m_timeMax, m_networkCongestionFactor, m_currentVehicleCount>>
    /\ UNCHANGED bufferVars
    /\ UNCHANGED <<pbftVars, trustVars>>

UpdateNetworkParameters(vehicleCount, averageLatency) ==
    /\ batchSteps < MaxBatchSteps
    /\ m_currentVehicleCount' = vehicleCount
    /\ LET newCongestionFactor == RepScale + (vehicleCount * RepScale) \div 200
       IN m_networkCongestionFactor' =
              (CONGESTION_FACTOR_ALPHA.num * m_networkCongestionFactor
               + (CONGESTION_FACTOR_ALPHA.den - CONGESTION_FACTOR_ALPHA.num) * newCongestionFactor)
              \div CONGESTION_FACTOR_ALPHA.den
    /\ m_currentLatency' = IF averageLatency > 0 THEN averageLatency ELSE m_currentLatency
    /\ batchSteps' = batchSteps + 1
    /\ UNCHANGED <<m_batchBase, m_timeMax, m_currentTransactionRate, m_averageTransactionRate,
                   m_latencyHistory, batchSizes>>
    /\ UNCHANGED bufferVars
    /\ UNCHANGED <<pbftVars, trustVars>>

\* The adjustment of B_base without the limits B_min and B_max.
AdjustedBatchBaseUnclamped(base, history) ==
    LET total == SumSeq(history)
        size == Len(history)
    IN IF size = 0 THEN base
       ELSE IF total * LATENCY_UPPER_THRESHOLD_RATIO.den
                   > m_latencyMax * LATENCY_UPPER_THRESHOLD_RATIO.num * size
       THEN (base * 9) \div 10
       ELSE IF total * LATENCY_LOWER_THRESHOLD_RATIO.den
                   < m_latencyMax * LATENCY_LOWER_THRESHOLD_RATIO.num * size
       THEN (base * 11) \div 10
       ELSE base

\* The two adjustments of AdaptiveParameterAdjustment as functions of what
\* they read.
AdjustedBatchBase(base, history) ==
    LET total == SumSeq(history)
        size == Len(history)
    IN IF size = 0 THEN base
       ELSE IF total * LATENCY_UPPER_THRESHOLD_RATIO.den
                   > m_latencyMax * LATENCY_UPPER_THRESHOLD_RATIO.num * size
       THEN Max2(m_batchMin, (base * 9) \div 10)
       ELSE IF total * LATENCY_LOWER_THRESHOLD_RATIO.den
                   < m_latencyMax * LATENCY_LOWER_THRESHOLD_RATIO.num * size
       THEN Min2(m_batchMax, (base * 11) \div 10)
       ELSE base

AdjustedTimeMax(timeMax, rate, avg) ==
    IF 2 * rate > 3 * avg THEN Max2(50, (timeMax * 9) \div 10)
    ELSE IF 2 * rate < avg THEN Min2(1000, (timeMax * 12) \div 10)
    ELSE timeMax

AdaptiveParameterAdjustment ==
    /\ batchSteps < MaxBatchSteps
    /\ m_batchBase' = AdjustedBatchBase(m_batchBase, m_latencyHistory)
    /\ m_timeMax' = AdjustedTimeMax(m_timeMax, m_currentTransactionRate,
                                    m_averageTransactionRate)
    /\ batchSteps' = batchSteps + 1
    /\ UNCHANGED <<m_currentTransactionRate, m_averageTransactionRate, m_currentLatency,
                   m_networkCongestionFactor, m_currentVehicleCount, m_latencyHistory, batchSizes>>
    /\ UNCHANGED bufferVars
    /\ UNCHANGED <<pbftVars, trustVars>>

GetCurrentAdaptiveBatchSize ==
    /\ batchSteps < MaxBatchSteps
    /\ batchSizes' = Append(batchSizes,
          [base |-> m_batchBase,
           size |-> CalculateAdaptiveBatchSize(m_batchBase, m_currentTransactionRate,
                                               m_averageTransactionRate, m_currentLatency,
                                               m_networkCongestionFactor)])
    /\ batchSteps' = batchSteps + 1
    /\ UNCHANGED <<m_batchBase, m_timeMax, m_currentTransactionRate, m_averageTransactionRate,
                   m_currentLatency, m_networkCongestionFactor, m_currentVehicleCount,
                   m_latencyHistory>>
    /\ UNCHANGED bufferVars
    /\ UNCHANGED <<pbftVars, trustVars>>

\* ------------------------------------------------------------------------
\* The batch buffer of the leader's batch manager
\* ------------------------------------------------------------------------
\* One unit of `now` is one second.  The processed-id cache is emptied after a
\* flush once it holds more than MaxProcessedIds ids (1000 in the source).
BatchInputs ==
    {RegistrationTx(v, k, Half, t) : v \in Vehicles, k \in {"K1", "KX"}, t \in {0, now}}

\* m_adaptiveTimer.Cancel() behind the IsRunning() test: one pending timer
\* event less, if there is one.
Cancelled(pending) == IF pending > 0 THEN pending - 1 ELSE 0

\* A timer started for every enqueue that does not flush, running or not.
StartedTimerAgain(pending) == pending + 1

\* The timer as AddTransaction leaves it when it does not flush: started
\* unless it is running.
StartedTimer(pending) == IF pending > 0 THEN pending ELSE 1

\* ProcessBatch for the buffer `buffer` and the parameter values at hand:
\* broadcast the batch, add it to the pool, schedule the proposal, empty the
\* buffer, stop the timer, trim the id cache, adjust the parameters.
FlushBuffer(buffer, ids, rate, avg, history, pending) ==
    /\ sent' = sent \cup {AdaptiveBatchMsg(Leader, buffer)}
    /\ m_transactionPool' = [m_transactionPool EXCEPT ![Leader] = @ \o buffer]
    /\ proposeTimers' = proposeTimers + 1
    /\ m_batchBuffer' = <<>>
    /\ m_adaptiveTimer' = Cancelled(pending)
    /\ m_lastBatchTime' = now
    /\ m_processedTransactionIds' = IF Cardinality(ids) > MaxProcessedIds THEN {} ELSE ids
    /\ m_batchBase' = AdjustedBatchBase(m_batchBase, history)
    /\ m_timeMax' = AdjustedTimeMax(m_timeMax, rate, avg)

\* AddTransaction past the test for a known id.
BufferTransaction(tx) ==
    /\ batchSteps < MaxBatchSteps
    /\ LET arrivals == SelectSeq(Append(m_transactionArrivalTimes, now),
                                 LAMBDA t : now - t <= m_arrivalRateWindow)
           buffer == Append(m_batchBuffer, tx)
           ids == m_processedTransactionIds \cup {GenerateTransactionId(tx)}
           rates == UpdateTransactionArrivalRate(Len(arrivals))
           latency == EstimatedLatency(rates.rate)
           history == PushLatency(m_latencyHistory, latency)
           adaptiveBatchSize ==
               CalculateAdaptiveBatchSize(m_batchBase, rates.rate, rates.avg, latency,
                                          m_networkCongestionFactor)
       IN /\ m_transactionArrivalTimes' = arrivals
          /\ m_currentTransactionRate' = rates.rate
          /\ m_averageTransactionRate' = rates.avg
          /\ m_currentLatency' = latency
          /\ m_latencyHistory' = history
          /\ batchSizes' = Append(batchSizes, [base |-> m_batchBase, size |-> adaptiveBatchSize])
          /\ IF \/ Len(buffer) >= adaptiveBatchSize
                \/ (now - m_lastBatchTime) * 1000 >= m_timeMax
             THEN FlushBuffer(buffer, ids, rates.rate, rates.avg, history, m_adaptiveTimer)
             ELSE /\ m_batchBuffer' = buffer
                  /\ m_processedTransactionIds' = ids
                  /\ m_adaptiveTimer' = StartedTimer(m_adaptiveTimer)
                  /\ UNCHANGED <<sent, m_transactionPool, proposeTimers, m_lastBatchTime,
                                 m_batchBase, m_timeMax>>
    /\ batchSteps' = batchSteps + 1
    /\ UNCHANGED <<m_networkCongestionFactor, m_currentVehicleCount>>
    /\ UNCHANGED <<m_rsuList, faultMode, m_localBlockchain, m_pbftActiveConsensus,
                   m_vehicleKeys, m_vehicleReputations, forged, flushes, now, finalized>>
    /\ UNCHANGED trustVars

\* AddTransaction without the test for a known id.
AddTransactionUnchecked(tx) == BufferTransaction(tx)

AddTransaction(tx) ==
    IF GenerateTransactionId(tx) \in m_processedTransactionIds
    THEN UNCHANGED vars
    ELSE BufferTransaction(tx)

\* A flush timer fires, which takes its event off the pending ones: ProcessBatch.
OnAdaptiveTimer ==
    /\ m_adaptiveTimer > 0
    /\ IF m_batchBuffer = <<>>
       THEN /\ m_adaptiveTimer' = Cancelled(m_adaptiveTimer - 1)
            /\ UNCHANGED <<sent, m_transactionPool, proposeTimers, m_batchBuffer,
                           m_lastBatchTime, m_processedTransactionIds, m_batchBase, m_timeMax>>
       ELSE FlushBuffer(m_batchBuffer, m_processedTransactionIds, m_currentTransactionRate,
                        m_averageTransactionRate, m_latencyHistory, m_adaptiveTimer - 1)
    /\ UNCHANGED <<m_transactionArrivalTimes, m_currentTransactionRate,
                   m_averageTransactionRate, m_currentLatency, m_networkCongestionFactor,
                   m_currentVehicleCount, m_latencyHistory, batchSizes, batchSteps>>
    /\ UNCHANGED <<m_rsuList, faultMode, m_localBlockchain, m_pbftActiveConsensus,
                   m_vehicleKeys, m_vehicleReputations, forged, flushes, now, finalized>>
    /\ UNCHANGED trustVars

\* ------------------------------------------------------------------------
\* The faulty RSU and the clock
\* ------------------------------------------------------------------------
\* What a byzantine RSU announces: a block on the tip of some chain, carrying a
\* registration of its own making, under the leader's name with a hash that is
\* the hash of nothing or a hash already in play, or under its own name.
BogusHashes == {<<"bogus", 1>>, <<"bogus", 2>>}
Tips == {Last(m_localBlockchain[i]).blockHash : i \in Honest}
KnownHashes ==
    BogusHashes
    \cup UNION {ChainHashes(m_localBlockchain[i]) : i \in Honest}
    \cup UNION {DOMAIN m_pbftActiveConsensus[i] : i \in Honest}
ForgedTxs == <<serialize(RegistrationTx("V1", "KX", -Half, 0))>>
Forge(h, p, q) ==
    [type |-> "pre-prepare", blockHash |-> h, sender |-> p, height |-> 1,
     previousHash |-> q, txs |-> ForgedTxs]
ForgedPrePrepares ==
    {Forge(h, Leader, q) : h \in KnownHashes, q \in Tips}
    \cup {Forge(h, f, q) : h \in BogusHashes, f \in Faulty, q \in Tips}

\* The faulty RSU broadcasts a pre-prepare of its choice.
FaultyPrePrepare ==
    /\ faultMode = "byzantine"
    /\ Cardinality(forged) < MaxForged
    /\ \E m \in ForgedPrePrepares \ forged : forged' = forged \cup {m}
    /\ UNCHANGED <<trustVars, batchVars>>
    /\ UNCHANGED <<m_rsuList, faultMode, m_localBlockchain, m_pbftActiveConsensus,
                   m_transactionPool, m_vehicleKeys, m_vehicleReputations,
                   m_processedTransactionIds, sent, proposeTimers, flushes, now, finalized>>

Tick ==
    /\ now < MaxTime
    /\ now' = now + 1
    /\ UNCHANGED <<trustVars, batchVars>>
    /\ UNCHANGED <<m_rsuList, faultMode, m_localBlockchain, m_pbftActiveConsensus, m_transactionPool,
                   m_vehicleKeys, m_vehicleReputations, m_processedTransactionIds, sent,
                   forged, proposeTimers, flushes, finalized>>

\* ------------------------------------------------------------------------
\* The consensus specification
\* ------------------------------------------------------------------------
\* Networks of up to three RSUs tolerate no fault (f = 0) and have none; of four
\* RSUs one (= f) is faulty.
FaultModes(list) == IF Len(list) >= 4 THEN {"silent"} ELSE {"none"}

InitLedgers ==
    /\ m_localBlockchain = [i \in AllRsus |-> <<GenesisBlock>>]
    /\ m_pbftActiveConsensus = [i \in AllRsus |-> EmptyMap]
    /\ m_transactionPool = [i \in AllRsus |-> <<>>]
    /\ m_vehicleKeys = [i \in AllRsus |-> EmptyMap]
    /\ m_vehicleReputations = [i \in AllRsus |-> EmptyMap]
    /\ m_processedTransactionIds = {}
    /\ sent = {}
    /\ forged = {}
    /\ proposeTimers = 0
    /\ flushes = 0
    /\ now = 0
    /\ finalized = [i \in AllRsus |-> {}]

\* The reward and penalty rates: the constructor's values, the defaults of the
\* Alpha and Beta attributes, or rates above 1 (the attributes accept any double).
RateConfigs == {[alpha |-> (5 * RepScale) \div 100, beta |-> (35 * RepScale) \div 100],
                [alpha |-> (8 * RepScale) \div 100, beta |-> (12 * RepScale) \div 100],
                [alpha |-> (3 * RepScale) \div 2, beta |-> (3 * RepScale) \div 2]}

InitTrust ==
    /\ m_activeClusters = [i \in AllRsus |-> EmptyMap]
    /\ m_vehicleReportHistory = [i \in AllRsus |-> EmptyMap]
    /\ decisions = [i \in AllRsus |-> <<>>]
    /\ forwarded = [i \in AllRsus |-> <<>>]
    /\ reputationReply = <<>>

DefaultRates ==
    /\ m_alpha = (8 * RepScale) \div 100
    /\ m_beta = (12 * RepScale) \div 100

\* The batch manager after its constructor.
InitBatchState ==
    /\ m_currentTransactionRate = 0
    /\ m_averageTransactionRate = 10 * RateScale
    /\ m_currentLatency = 500
    /\ m_networkCongestionFactor = RepScale
    /\ m_currentVehicleCount = 0
    /\ m_latencyHistory = <<>>
    /\ batchSizes = <<>>
    /\ batchSteps = 0
    /\ m_batchBuffer = <<>>
    /\ m_transactionArrivalTimes = <<>>
    /\ m_adaptiveTimer = 0
    /\ m_lastBatchTime = 0

InitBatch ==
    /\ m_batchBase = 100
    /\ m_timeMax = 1000
    /\ InitBatchState

\* B_base and the time-trigger bound after k adjustments in a row under a
\* latency history at L_max, under one at the base latency, and under an
\* arrival rate above 1.5 times the average.
RECURSIVE ShrunkBase(_)
ShrunkBase(k) ==
    IF k = 0 THEN 100 ELSE AdjustedBatchBase(ShrunkBase(k - 1), <<m_latencyMax>>)

RECURSIVE GrownBase(_)
GrownBase(k) == IF k = 0 THEN 100 ELSE AdjustedBatchBase(GrownBase(k - 1), <<500>>)

RECURSIVE ReducedTimeMax(_)
ReducedTimeMax(k) == IF k = 0 THEN 1000 ELSE AdjustedTimeMax(ReducedTimeMax(k - 1), 2, 1)

\* Runs of the batch manager that start after earlier adjustments have moved
\* B_base and the time-trigger bound next to their limits.
InitController ==
    /\ m_rsuList = SubSeq(RsuNames, 1, 1)
    /\ faultMode = "none"
    /\ InitLedgers
    /\ InitTrust
    /\ DefaultRates
    /\ m_batchBase \in {ShrunkBase(k) : k \in {0, MaxAdjustments - 1}}
                       \cup {GrownBase(MaxAdjustments)}
    /\ m_timeMax \in {ReducedTimeMax(k) : k \in {0, 4 * MaxAdjustments}}
    /\ InitBatchState

\* Crash-fault runs: every network size, the last of four RSUs silent.
Init ==
    /\ m_rsuList \in RsuLists
    /\ faultMode \in FaultModes(m_rsuList)
    /\ InitLedgers
    /\ InitTrust
    /\ DefaultRates
    /\ InitBatch

\* Byzantine runs: four RSUs, the last one byzantine.
InitByz ==
    /\ m_rsuList = RsuNames
    /\ faultMode = "byzantine"
    /\ InitLedgers
    /\ InitTrust
    /\ DefaultRates
    /\ InitBatch

\* Runs of the credibility engine at one RSU of a two-RSU network.
InitCredibility ==
    /\ m_rsuList = SubSeq(RsuNames, 1, 2)
    /\ faultMode = "none"
    /\ InitLedgers
    /\ InitTrust
    /\ \E c \in RateConfigs : m_alpha = c.alpha /\ m_beta = c.beta
    /\ InitBatch

\* Runs of the leader's batch manager.
InitBatchManager ==
    /\ m_rsuList = SubSeq(RsuNames, 1, 1)
    /\ faultMode = "none"
    /\ InitLedgers
    /\ InitTrust
    /\ DefaultRates
    /\ InitBatch

OnPbftInterest ==
    \E i \in Honest : \E m \in Receivable(i) :
        \/ HandlePrePrepare(i, m)
        \/ HandlePrepare(i, m)
        \/ HandleCommit(i, m)

OnBatchInterest ==
    \E i \in Honest : \E m \in Receivable(i) : HandleAdaptiveBatch(i, m)

Next ==
    \/ ProcessBatch
    \/ ProposeBlockForBatch
    \/ OnPbftInterest
    \/ OnBatchInterest
    \/ Tick

Spec == Init /\ [][Next]_vars

OnEventReport ==
    \E i \in Honest : \E report \in Reports : ProcessEventReport(i, report)

OnClusterCheck ==
    \E i \in Honest : \E eventId \in DOMAIN m_activeClusters[i] : CheckCluster(i, eventId)

NextByz ==
    \/ OnPbftInterest
    \/ FaultyPrePrepare

SpecByz == InitByz /\ [][NextByz]_vars

\* Byzantine runs with the credibility engine of the observing RSU.
NextByzCredibility ==
    \/ OnPbftInterest
    \/ FaultyPrePrepare
    \/ OnEventReport
    \/ OnClusterCheck

SpecByzCredibility == InitByz /\ [][NextByzCredibility]_vars

\* A registration block of the leader as the finalization in HandleCommit adds
\* it to the ledger of RSU i; the votes of its round are not replayed here.
RegistrationBlock(i, v) ==
    LET b == [height |-> Last(m_localBlockchain[i]).height + 1,
              timestamp |-> now,
              previousHash |-> Last(m_localBlockchain[i]).blockHash,
              proposerId |-> Leader,
              transactions |-> <<RegistrationTx(v, VehicleKey(v), Half, now)>>,
              blockHash |-> NoHash]
    IN [b EXCEPT !.blockHash = calculateHash(b)]

AppendRegistration(i, v) ==
    /\ LET added == AddBlockToChain(m_localBlockchain[i], m_vehicleKeys[i],
                                    m_vehicleReputations[i], RegistrationBlock(i, v))
       IN /\ m_localBlockchain' = [m_localBlockchain EXCEPT ![i] = added.chain]
          /\ m_vehicleKeys' = [m_vehicleKeys EXCEPT ![i] = added.keys]
          /\ m_vehicleReputations' = [m_vehicleReputations EXCEPT ![i] = added.reps]
    /\ UNCHANGED <<m_rsuList, faultMode, m_pbftActiveConsensus, m_transactionPool,
                   m_processedTransactionIds, sent, forged, proposeTimers, flushes, now,
                   finalized>>
    /\ UNCHANGED <<trustVars, batchVars>>

CommitRegistration(i, v) ==
    /\ i \in Observers \cap Honest
    /\ v \notin DOMAIN m_vehicleKeys[i]
    /\ AppendRegistration(i, v)

OnRegistrationCommit ==
    \E i \in Honest : \E v \in Vehicles : CommitRegistration(i, v)

\* A vehicle that is registered sends its registration request again:
\* HandleRegistrationInterest forwards a Registration transaction for it all
\* the same, and the block that holds it is finalized at RSU i.
OnRepeatedRegistration ==
    \E i \in Observers \cap Honest : \E v \in DOMAIN m_vehicleKeys[i] :
        /\ Len(m_localBlockchain[i]) <= MaxRegistrations
        /\ AppendRegistration(i, v)

NextCredibility ==
    \/ OnRegistrationCommit
    \/ OnEventReport
    \/ OnClusterCheck
    \/ \E i \in Honest : \E vehicleId \in Vehicles : HandleReputationRequest(i, vehicleId)

SpecCredibility == InitCredibility /\ [][NextCredibility]_vars

\* Runs of the credibility engine in which registered vehicles may register
\* again.
NextLedger ==
    \/ NextCredibility
    \/ OnRepeatedRegistration

SpecLedger == InitCredibility /\ [][NextLedger]_vars

\* Runs of the credibility engine at an RSU that has registered both vehicles
\* and has judged reports of them before: the outcome histories are drawn from
\* HistoryInputs and the reputations are what those outcomes made of 0.5.
Repeat(x, n) == [k \in 1..n |-> x]

HistoryInputs ==
    {Repeat(0, HISTORY_WINDOW_N - 1), Repeat(0, HISTORY_WINDOW_N),
     <<1>> \o Repeat(0, HISTORY_WINDOW_N - 1), Repeat(1, HISTORY_WINDOW_N),
     [k \in 1..HISTORY_WINDOW_N |-> k % 2]}

RECURSIVE ReplayOutcomes(_, _)
ReplayOutcomes(reputation, outcomes) ==
    IF outcomes = <<>> THEN reputation
    ELSE ReplayOutcomes(NewReputation(reputation, Head(outcomes) = 1), Tail(outcomes))

RegistrationBlockOn(chain, v) ==
    LET b == [height |-> Last(chain).height + 1,
              timestamp |-> 0,
              previousHash |-> Last(chain).blockHash,
              proposerId |-> Leader,
              transactions |-> <<RegistrationTx(v, VehicleKey(v), Half, 0)>>,
              blockHash |-> NoHash]
    IN [b EXCEPT !.blockHash = calculateHash(b)]

RegisteredLedger ==
    LET first == AddBlockToChain(<<GenesisBlock>>, EmptyMap, EmptyMap,
                                 RegistrationBlockOn(<<GenesisBlock>>, "V1"))
    IN AddBlockToChain(first.chain, first.keys, first.reps,
                       RegistrationBlockOn(first.chain, "V2"))

InitRegistered ==
    /\ m_rsuList = SubSeq(RsuNames, 1, 2)
    /\ faultMode = "none"
    /\ DefaultRates
    /\ \E h1 \in HistoryInputs : \E h2 \in {<<1>>, Repeat(1, HISTORY_WINDOW_N)} :
          LET hist == [v \in Vehicles |-> IF v = "V1" THEN h1 ELSE h2]
          IN /\ m_vehicleReportHistory =
                   [i \in AllRsus |-> IF i \in Observers THEN hist ELSE EmptyMap]
             /\ m_vehicleReputations =
                   [i \in AllRsus |->
                       IF i \in Observers
                       THEN [v \in Vehicles |-> ReplayOutcomes(Half, hist[v])]
                       ELSE EmptyMap]
    /\ m_localBlockchain =
          [i \in AllRsus |-> IF i \in Observers THEN RegisteredLedger.chain
                             ELSE <<GenesisBlock>>]
    /\ m_vehicleKeys =
          [i \in AllRsus |-> IF i \in Observers THEN RegisteredLedger.keys ELSE EmptyMap]
    /\ m_pbftActiveConsensus = [i \in AllRsus |-> EmptyMap]
    /\ m_transactionPool = [i \in AllRsus |-> <<>>]
    /\ m_processedTransactionIds = {}
    /\ sent = {}
    /\ forged = {}
    /\ proposeTimers = 0
    /\ flushes = 0
    /\ now = 0
    /\ finalized = [i \in AllRsus |-> {}]
    /\ decisions = [i \in AllRsus |-> <<>>]
    /\ forwarded = [i \in AllRsus |-> <<>>]
    /\ reputationReply = <<>>
    /\ InitBatch

InitSuspicion ==
    /\ InitRegistered
    /\ m_activeClusters = [i \in AllRsus |-> EmptyMap]

NextSuspicion ==
    \/ OnEventReport
    \/ OnClusterCheck

SpecSuspicion == InitSuspicion /\ [][NextSuspicion]_vars

\* Runs of the clustering at an RSU that has registered both vehicles, for
\* reports of several places and times, on and next to the distance and time
\* thresholds: V1 reports an accident as it is, V2 reports an accident as a
\* jam, a breakdown as an accident and a jam as an accident.
PlacedReports ==
    {PlacedReport(l[1], l[2], l[3], pt[1], pt[2], ExpectedSignature(l[1], l[2])) :
        l \in {<<"V1", "Accident", "Accident">>, <<"V2", "Jam", "Accident">>,
               <<"V2", "Accident", "Breakdown">>, <<"V2", "Accident", "Jam">>},
        pt \in {<<0, 0>>, <<m_distanceThreshold - 1, m_timeThreshold - 1>>,
                <<m_distanceThreshold, 0>>, <<0, m_timeThreshold>>}}

InitClustering ==
    /\ InitSuspicion
    /\ \A i \in Observers : m_vehicleReportHistory[i]["V1"] = Repeat(1, HISTORY_WINDOW_N)
    /\ \A i \in Observers : m_vehicleReportHistory[i]["V2"] = <<1>>

NextClustering ==
    \/ \E i \in Honest : \E report \in PlacedReports : ProcessEventReport(i, report)
    \/ OnClusterCheck

SpecClustering == InitClustering /\ [][NextClustering]_vars

\* Runs of the verdict at an RSU whose one cluster has collected ClusterSize
\* reports, V1 and V2 taking turns: the first `a` of them claim one label, the
\* others the other label.
VotingCluster(first, a) ==
    LET other == CHOOSE c \in EventTypes : c # first
        report(k) ==
            LET v == IF k % 2 = 1 THEN "V1" ELSE "V2"
                c == IF k <= a THEN first ELSE other
            IN EventReport(v, c, "Accident", ExpectedSignature(v, c))
    IN [NewCluster(report(1)) EXCEPT !.reports = [k \in 1..ClusterSize |-> report(k)]]

InitVerdict ==
    /\ InitRegistered
    /\ \E first \in EventTypes : \E a \in 1..ClusterSize :
          LET cluster == VotingCluster(first, a)
          IN m_activeClusters =
                [i \in AllRsus |-> IF i \in Observers
                                   THEN MapPut(EmptyMap, cluster.eventId, cluster)
                                   ELSE EmptyMap]

NextVerdict == OnClusterCheck

SpecVerdict == InitVerdict /\ [][NextVerdict]_vars

NextBatchManager ==
    \/ \E arrivals \in ArrivalCounts : AddTransactionUpdate(arrivals)
    \/ \E vehicleCount \in VehicleCounts : \E averageLatency \in AverageLatencies :
          UpdateNetworkParameters(vehicleCount, averageLatency)
    \/ AdaptiveParameterAdjustment
    \/ GetCurrentAdaptiveBatchSize

SpecBatchManager == InitBatchManager /\ [][NextBatchManager]_vars

SpecController == InitController /\ [][NextBatchManager]_vars

\* Runs of the leader's batch buffer.
NextBatchBuffer ==
    \/ \E tx \in BatchInputs : AddTransaction(tx)
    \/ OnAdaptiveTimer
    \/ Tick

SpecBatchBuffer == InitBatchManager /\ [][NextBatchBuffer]_vars

\* Runs of the proposer with its batch buffer in a fault-free network of three
\* RSUs: transactions arrive at the leader, the buffer is flushed by the timer,
\* proposals are made and voted on.  The followers' handling of the batch
\* Interest only fills their own pools, which no proposal reads; it is not
\* part of these runs.
ProposerInputs == {RegistrationTx(v, VehicleKey(v), Half, 0) : v \in Vehicles}

InitProposer ==
    /\ m_rsuList = SubSeq(RsuNames, 1, 3)
    /\ faultMode = "none"
    /\ InitLedgers
    /\ InitTrust
    /\ DefaultRates
    /\ InitBatch

NextProposer ==
    \/ \E tx \in ProposerInputs : AddTransaction(tx)
    \/ OnAdaptiveTimer
    \/ ProposeBlockForBatch
    \/ OnPbftInterest

SpecProposer == InitProposer /\ [][NextProposer]_vars

\* The same runs with every scheduled event run and every Interest delivered:
\* the flush timer fires, a scheduled ProposeBlockForBatch runs, and an Interest
\* whose handling changes something is handled.  Transactions need not arrive.
SpecProposerLive ==
    /\ SpecProposer
    /\ WF_vars(OnAdaptiveTimer)
    /\ WF_vars(ProposeBlockForBatch)
    /\ WF_vars(OnPbftInterest)

\* ------------------------------------------------------------------------
\* Properties of the consensus core
\* ------------------------------------------------------------------------
IsPrefix(s, t) == Len(s) <= Len(t) /\ SubSeq(t, 1, Len(s)) = s

Chain(i) == m_localBlockchain[i]

\* No delivery of any pending Interest changes anything and no proposal is
\* scheduled: every message sent has been delivered and handled.
Quiescent ==
    /\ proposeTimers = 0
    /\ ~ENABLED <<OnPbftInterest \/ OnBatchInterest>>_vars

Proposed == {m.blockHash : m \in {x \in sent : x.type = "pre-prepare"}}

\* C1. Agreement: the chains of any two non-faulty RSUs never hold blocks with
\* different hashes at the same position, whatever the faulty RSU sends.
Agreement ==
    \A i, j \in Honest :
        \A k \in 1..Len(Chain(i)) :
            k <= Len(Chain(j)) => Chain(i)[k].blockHash = Chain(j)[k].blockHash

\* C2. Quorum correctness: a block is in the chain of an RSU only if a round
\* for it ended there with at least 2f+1 distinct commit voters, and when
\* nothing is left to deliver no round holds 2f+1 commit voters for a block
\* that is not in the chain.
QuorumCorrectness ==
    \A i \in Honest :
        /\ \A k \in 2..Len(Chain(i)) :
              \E e \in finalized[i] :
                  /\ e.hash = Chain(i)[k].blockHash
                  /\ e.outcome = "appended"
                  /\ Cardinality(e.voters) >= Required
        /\ Quiescent =>
              \A h \in DOMAIN m_pbftActiveConsensus[i] :
                  Cardinality(m_pbftActiveConsensus[i][h].commitVotes) >= Required
                      => h \in ChainHashes(Chain(i))

\* C3. Progress with one silent replica: with four RSUs of which the last one
\* never sends anything, once every message has been delivered each block the
\* leader proposed is in the chain of each of the three responding RSUs,
\* exactly once, committed there with exactly 3 commit votes.
SilentReplicaProgress ==
    (m_n_rsus = 4 /\ faultMode = "silent" /\ Quiescent) =>
        \A h \in Proposed : \A i \in Honest :
            /\ Cardinality({k \in 1..Len(Chain(i)) : Chain(i)[k].blockHash = h}) = 1
            /\ \E e \in finalized[i] :
                  e.hash = h /\ e.outcome = "appended" /\ Cardinality(e.voters) = 3

\* C4. Chain linkage: every block of a chain but the genesis block names the
\* hash of the block before it as its previousHash.
ChainLinkage ==
    \A i \in Honest :
        \A k \in 2..Len(Chain(i)) : Chain(i)[k].previousHash = Chain(i)[k - 1].blockHash

\* A block has been appended after genesis and a round that lost the race for
\* that tip reached the commit quorum afterwards.
ChainLinkageWitness ==
    \E i \in Honest :
        /\ Len(Chain(i)) >= 2
        /\ \E e \in finalized[i] : e.outcome = "prevMismatch"

\* C5. Hash integrity: the stored hash of every block of every chain is the
\* hash recomputed from the block's own stored fields.
HashIntegrity ==
    \A i \in Honest : \A k \in 1..Len(Chain(i)) : ValidateBlock(Chain(i)[k])

\* C6. Idempotent commit: a pre-prepare, prepare or commit for a hash that is
\* already in the chain of the RSU handling it leaves that chain as it is.
IdempotentCommit ==
    [][\A i \in Honest : \A m \in Receivable(i) :
          (/\ m.blockHash \in ChainHashes(Chain(i))
           /\ HandlePrePrepare(i, m) \/ HandlePrepare(i, m) \/ HandleCommit(i, m))
          => m_localBlockchain'[i] = m_localBlockchain[i]]_vars

\* A round for a hash already in the chain reached the commit quorum and
\* AddBlockToChain was called a second time for that hash.
IdempotentCommitWitness ==
    \E i \in Honest : \E e \in finalized[i] :
        e.outcome = "duplicate" /\ e.hash \in ChainHashes(Chain(i))

\* C7. Append-only ledger: every step leaves each chain a prefix of what it
\* becomes.
AppendOnly ==
    [][\A i \in AllRsus : IsPrefix(m_localBlockchain[i], m_localBlockchain'[i])]_vars

\* A block has been appended after genesis.
AppendOnlyWitness == \E i \in Honest : Len(Chain(i)) >= 2

\* ------------------------------------------------------------------------
\* Properties of the credibility engine and the batch manager
\* ------------------------------------------------------------------------
Decisions(i) == {decisions[i][k] : k \in 1..Len(decisions[i])}

Rewarded(d) == {d.reports[k].vehicleId : k \in {j \in 1..Len(d.reports) :
                                                   d.reports[j].reportedEventType = d.winningClaim}}
Penalised(d) == {d.reports[k].vehicleId : k \in {j \in 1..Len(d.reports) :
                                                    d.reports[j].reportedEventType # d.winningClaim}}

\* C8. Reputation bounds: whatever rewards and penalties have been applied to
\* vehicles registered with a reputation in [0,1], every stored reputation is
\* in [0,1].
ReputationBounds ==
    \A i \in AllRsus : \A v \in DOMAIN m_vehicleReputations[i] :
        0 <= m_vehicleReputations[i][v] /\ m_vehicleReputations[i][v] <= RepScale

\* A validated decision has rewarded one vehicle and penalised another, and
\* the rates are such that the unclamped results leave [0,1].
ReputationBoundsWitness ==
    \E i \in AllRsus : \E d \in Decisions(i) :
        /\ d.verdict = "VALIDATED"
        /\ Rewarded(d) # {} /\ Penalised(d) # {}
        /\ m_alpha > RepScale /\ m_beta > RepScale
        /\ \E v \in Rewarded(d) : m_vehicleReputations[i][v] = RepScale
        /\ \E v \in Penalised(d) : m_vehicleReputations[i][v] = 0

\* C9. Batch bounds: every value CalculateAdaptiveBatchSize has returned lies
\* in [B_min, B_max], also after parameter adjustments have changed B_base.
BatchBounds ==
    \A k \in 1..Len(batchSizes) :
        m_batchMin <= batchSizes[k].size /\ batchSizes[k].size <= m_batchMax

\* After an adjustment of B_base the raw size exceeded B_max and was capped,
\* and an earlier raw size was below B_min.
BatchBoundsWitness ==
    /\ \E k \in 1..Len(batchSizes) :
          batchSizes[k].base # 100 /\ batchSizes[k].size = m_batchMax
    /\ \E k \in 1..Len(batchSizes) : batchSizes[k].size = m_batchMin

\* C10. Confidence normalization: in every decision each claimed label's
\* confidence is in [0,1], the confidences of the claimed labels sum to 1 and
\* the sum of the normalised trust scores of the reports is not 0.
ConfidenceNormalization ==
    \A i \in AllRsus : \A d \in Decisions(i) :
        /\ \A c \in DOMAIN d.claimConfidenceMap :
              0 <= d.claimConfidenceMap[c] /\ d.claimConfidenceMap[c] <= d.confDen
        /\ SumOver(d.claimConfidenceMap, DOMAIN d.claimConfidenceMap) = d.confDen
        /\ d.sumT_all > 0

\* C11. Cluster decided exactly once: no two decisions of an RSU carry the same
\* cluster id, and a cluster that still stands decided under the id of a
\* decision holds exactly the reports that decision was taken on.
ClusterDecidedOnce ==
    \A i \in AllRsus :
        /\ \A k, l \in 1..Len(decisions[i]) :
              decisions[i][k].eventId = decisions[i][l].eventId => k = l
        /\ \A d \in Decisions(i) :
              (/\ d.eventId \in DOMAIN m_activeClusters[i]
               /\ m_activeClusters[i][d.eventId].decisionMade)
                  => m_activeClusters[i][d.eventId].reports = d.reports

\* The largest element of a non-empty set of integers.
MaxOf(S) == CHOOSE x \in S : \A y \in S : y <= x

\* C12. Reward or penalty by in-protocol outcome: a check that ends VALIDATED
\* forwards, after the decision, exactly one reputation update per report of
\* the cluster, in order, for the report's vehicle; it starts from the
\* reputation the vehicle had (or was left with by its previous report of the
\* cluster) and is a reward if the claimed label is the winning label and a
\* penalty otherwise; the stored reputation is that of the vehicle's last update.
RewardPenaltyByOutcome ==
    [][\A i \in Honest : \A eventId \in DOMAIN m_activeClusters[i] :
          CheckCluster(i, eventId) =>
              LET d == Last(decisions'[i])
                  n == Len(d.reports)
                  base == Len(forwarded[i]) + 1
                  Tx(k) == forwarded'[i][base + k]
                  Earlier(k) == {j \in 1..(k - 1) : d.reports[j].vehicleId = d.reports[k].vehicleId}
                  Before(k) == IF Earlier(k) = {}
                               THEN ReputationOf(m_vehicleReputations[i], d.reports[k].vehicleId)
                               ELSE Tx(MaxOf(Earlier(k))).newReputation
              IN d.verdict = "VALIDATED" =>
                    /\ Len(forwarded'[i]) = base + n
                    /\ \A k \in 1..n :
                          /\ Tx(k).type = "REPUTATION_UPDATE"
                          /\ Tx(k).vehicleId_rep = d.reports[k].vehicleId
                          /\ Tx(k).eventId_rep = eventId
                          /\ Tx(k).oldReputation = Before(k)
                          /\ Tx(k).newReputation =
                                NewReputation(Before(k),
                                              d.reports[k].reportedEventType = d.winningClaim)
                          /\ (\A j \in (k + 1)..n : d.reports[j].vehicleId # d.reports[k].vehicleId)
                                => m_vehicleReputations'[i][d.reports[k].vehicleId]
                                      = Tx(k).newReputation]_vars

\* A validated decision whose winning label is not the original label of its
\* reports has rewarded one vehicle and penalised another.
RewardPenaltyWitness ==
    \E i \in AllRsus : \E d \in Decisions(i) :
        /\ d.verdict = "VALIDATED"
        /\ Rewarded(d) # {} /\ Penalised(d) # {}
        /\ \A k \in 1..Len(d.reports) : d.reports[k].originalEventType # d.winningClaim
        /\ \E tx \in {forwarded[i][k] : k \in 1..Len(forwarded[i])} :
              tx.type = "REPUTATION_UPDATE" /\ tx.eventId_rep = d.eventId
                 /\ tx.newReputation < tx.oldReputation

\* C13. No reputation change on UNCERTAIN: a check that ends UNCERTAIN forwards
\* the decision transaction and nothing else, and leaves every reputation and
\* every outcome history as it was.
NoChangeOnUncertain ==
    [][\A i \in Honest : \A eventId \in DOMAIN m_activeClusters[i] :
          (CheckCluster(i, eventId) /\ Last(decisions'[i]).verdict = "UNCERTAIN") =>
              /\ m_vehicleReputations' = m_vehicleReputations
              /\ m_vehicleReportHistory' = m_vehicleReportHistory
              /\ Len(forwarded'[i]) = Len(forwarded[i]) + 1
              /\ SubSeq(forwarded'[i], 1, Len(forwarded[i])) = forwarded[i]
              /\ Last(forwarded'[i]).type = "EVENT_DECISION"
              /\ Last(forwarded'[i]).eventId_dec = eventId
              /\ Last(forwarded'[i]).eventVerdict = "UNCERTAIN"]_vars

\* A cluster of reports of two registered vehicles claiming different labels
\* has been decided UNCERTAIN and its decision transaction has been forwarded.
NoChangeOnUncertainWitness ==
    \E i \in AllRsus : \E d \in Decisions(i) :
        /\ d.verdict = "UNCERTAIN"
        /\ Cardinality({d.reports[k].reportedEventType : k \in 1..Len(d.reports)}) = 2
        /\ \A k \in 1..Len(d.reports) : d.reports[k].vehicleId \in DOMAIN m_vehicleReputations[i]
        /\ \E k \in 1..Len(forwarded[i]) :
              forwarded[i][k].type = "EVENT_DECISION"
                 /\ forwarded[i][k].eventId_dec = d.eventId
                 /\ forwarded[i][k].eventVerdict = "UNCERTAIN"

\* C14. Reputation update rule: every reputation update of a validated cluster
\* records, for a report claiming the winning label, old + alpha * (1 - old)
\* and, for any other report, old - beta * old, limited to [0,1]; the first
\* is never below and the second never above the old reputation.
ReputationUpdateRule ==
    [][\A i \in Honest : \A eventId \in DOMAIN m_activeClusters[i] :
          (CheckCluster(i, eventId) /\ Last(decisions'[i]).verdict = "VALIDATED") =>
              LET d == Last(decisions'[i])
                  base == Len(forwarded[i]) + 1
              IN \A k \in 1..Len(d.reports) :
                    LET old == forwarded'[i][base + k].oldReputation
                        new == forwarded'[i][base + k].newReputation
                        raised == old + (m_alpha * (RepScale - old)) \div RepScale
                        lowered == old - (m_beta * old) \div RepScale
                    IN IF d.reports[k].reportedEventType = d.winningClaim
                       THEN /\ new = (IF raised > RepScale THEN RepScale
                                      ELSE IF raised < 0 THEN 0 ELSE raised)
                            /\ new >= old
                       ELSE /\ new = (IF lowered > RepScale THEN RepScale
                                      ELSE IF lowered < 0 THEN 0 ELSE lowered)
                            /\ new <= old]_vars

\* With alpha = 0.05 a reward has taken a reputation of 0.5 to 0.525, and a
\* penalty of the same run has lowered a reputation.
ReputationUpdateRuleWitness ==
    /\ m_alpha = (5 * RepScale) \div 100
    /\ \E i \in AllRsus :
          LET txs == {forwarded[i][k] : k \in 1..Len(forwarded[i])}
          IN /\ \E tx \in txs : /\ tx.type = "REPUTATION_UPDATE"
                                /\ tx.oldReputation = Half
                                /\ tx.newReputation = Half + (5 * Half) \div 100
             /\ \E tx \in txs : /\ tx.type = "REPUTATION_UPDATE"
                                /\ tx.newReputation < tx.oldReputation

\* C15. Default reputation: the reputation the credibility engine reads for a
\* vehicle the RSU stores none for is 0.5, a value in [0,1], and the answer to
\* a reputation request for such a vehicle carries that same 0.5.
DefaultReputation ==
    /\ \A i \in AllRsus : \A v \in Vehicles \ DOMAIN m_vehicleReputations[i] :
          /\ ReputationOf(m_vehicleReputations[i], v) = Half
          /\ 0 <= ReputationOf(m_vehicleReputations[i], v)
          /\ ReputationOf(m_vehicleReputations[i], v) <= RepScale
    /\ (reputationReply # <<>> /\ ~reputationReply.stored) =>
          reputationReply.content = to_string(Half)

\* C16. Suspicion of an all-incorrect history: whenever the engine scored a
\* reporter whose outcome history was full (N entries) and held only incorrect
\* outcomes, the performance factor of that history is 0 and the score is at
\* least w1.
SuspicionOfAllIncorrect ==
    \A i \in AllRsus : \A d \in Decisions(i) : \A k \in 1..Len(d.reports) :
        (/\ Len(d.histories[k]) = HISTORY_WINDOW_N
         /\ \A j \in 1..Len(d.histories[k]) : d.histories[k][j] = 0)
            => /\ RPF(d.histories[k]) = 0
               /\ d.R_suspicion[k] >= WEIGHT_RPF

\* A reporter has been scored on a full all-incorrect history that a penalty
\* of the same run completed by sliding the window.
SuspicionOfAllIncorrectWitness ==
    \E i \in AllRsus : \E a, b \in 1..Len(decisions[i]) : \E k \in 1..Len(decisions[i][b].reports) :
        /\ a < b
        /\ decisions[i][a].verdict = "VALIDATED"
        /\ \E j \in 1..Len(decisions[i][a].reports) :
              /\ decisions[i][a].reports[j].vehicleId = decisions[i][b].reports[k].vehicleId
              /\ decisions[i][a].histories[j] # decisions[i][b].histories[k]
        /\ Len(decisions[i][b].histories[k]) = HISTORY_WINDOW_N
        /\ \A j \in 1..HISTORY_WINDOW_N : decisions[i][b].histories[k][j] = 0

\* ------------------------------------------------------------------------
\* Properties of the message handlers
\* ------------------------------------------------------------------------
\* What HandlePrePrepare leaves behind when it turns a pre-prepare down.
PrePrepareTurnedDown ==
    /\ m_pbftActiveConsensus' = m_pbftActiveConsensus
    /\ m_localBlockchain' = m_localBlockchain
    /\ m_transactionPool' = m_transactionPool
    /\ sent' = sent

\* What it leaves behind at i when it takes the pre-prepare m: one more round,
\* created in PRE_PREPARE_RECEIVED and moved to PREPARE_SENT by the broadcast
\* of i's prepare vote, which is the one message added to the network.
PrePrepareTaken(i, m) ==
    LET rounds == m_pbftActiveConsensus[i]
        after == m_pbftActiveConsensus'[i]
    IN /\ DOMAIN after = DOMAIN rounds \cup {m.blockHash}
       /\ \A h \in DOMAIN rounds : after[h] = rounds[h]
       /\ \A j \in AllRsus \ {i} : m_pbftActiveConsensus'[j] = m_pbftActiveConsensus[j]
       /\ after[m.blockHash].phase = PREPARE_SENT
       /\ after[m.blockHash].prepareVotes = {i}
       /\ after[m.blockHash].commitVotes = {}
       /\ after[m.blockHash].proposerId = m.sender
       /\ after[m.blockHash].block.blockHash = m.blockHash
       /\ after[m.blockHash].block.previousHash = m.previousHash
       /\ sent' = sent \cup {VoteMsg("prepare", m.blockHash, i)}
       /\ m_localBlockchain' = m_localBlockchain
       /\ m_transactionPool' = m_transactionPool

HashMismatchRejection ==
    /\ \A i \in Honest : \A h \in DOMAIN m_pbftActiveConsensus[i] :
          m_pbftActiveConsensus[i][h].proposerId # i
              => ValidateBlock(m_pbftActiveConsensus[i][h].block)
    /\ \A m \in sent : m.type = "prepare" => m.blockHash \notin BogusHashes

\* C19. Duplicate votes are no-ops: the delivery of a prepare (commit) vote
\* whose voter is already recorded in the prepare (commit) votes of the round
\* changes nothing at all; and every voter recorded in a round is the RSU
\* itself or an RSU that sent such a vote for the round's hash, so the size of
\* a vote set is the number of distinct voters.
DuplicateVotesAreNoOps ==
    \A i \in Honest :
        LET rounds == m_pbftActiveConsensus[i]
        IN /\ \A m \in Receivable(i) :
                 /\ (/\ m.type = "prepare"
                     /\ m.blockHash \in DOMAIN rounds
                     /\ m.sender \in rounds[m.blockHash].prepareVotes)
                       => ~ENABLED <<HandlePrepare(i, m)>>_vars
                 /\ (/\ m.type = "commit"
                     /\ m.blockHash \in DOMAIN rounds
                     /\ m.sender \in rounds[m.blockHash].commitVotes)
                       => ~ENABLED <<HandleCommit(i, m)>>_vars
           /\ \A h \in DOMAIN rounds :
                 /\ \A v \in rounds[h].prepareVotes :
                       v = i \/ v \in Faulty \/ VoteMsg("prepare", h, v) \in sent
                 /\ \A v \in rounds[h].commitVotes :
                       v = i \/ v \in Faulty \/ VoteMsg("commit", h, v) \in sent

\* An RSU holds a round in which the prepare vote and the commit vote of
\* another RSU are recorded, and both votes can be delivered to it again.
DuplicateVotesWitness ==
    \E i \in Honest : \E p, c \in Receivable(i) :
        /\ p.type = "prepare" /\ c.type = "commit"
        /\ p.blockHash = c.blockHash
        /\ p.blockHash \in DOMAIN m_pbftActiveConsensus[i]
        /\ p.sender # i /\ p.sender \in m_pbftActiveConsensus[i][p.blockHash].prepareVotes
        /\ c.sender # i /\ c.sender \in m_pbftActiveConsensus[i][c.blockHash].commitVotes

\* C20. Batch de-duplication: AddTransaction for a transaction whose id is in
\* the processed-id set changes nothing; the buffer never holds two
\* transactions with the same id, and the id of every buffered transaction is
\* in the processed-id set.
BatchDeduplication ==
    /\ \A tx \in BatchInputs :
          GenerateTransactionId(tx) \in m_processedTransactionIds
              => ~ENABLED <<AddTransaction(tx)>>_vars
    /\ \A k, l \in 1..Len(m_batchBuffer) :
          GenerateTransactionId(m_batchBuffer[k]) = GenerateTransactionId(m_batchBuffer[l])
              => k = l
    /\ \A k \in 1..Len(m_batchBuffer) :
          GenerateTransactionId(m_batchBuffer[k]) \in m_processedTransactionIds

\* After a flush the buffer holds two transactions again, more can still be
\* added, and a transaction that differs from a buffered one but has its id is
\* on offer.
BatchDeduplicationWitness ==
    /\ proposeTimers > 0
    /\ Len(m_batchBuffer) >= 2
    /\ batchSteps < MaxBatchSteps
    /\ \E tx \in BatchInputs : \E k \in 1..Len(m_batchBuffer) :
          /\ tx # m_batchBuffer[k]
          /\ GenerateTransactionId(tx) = GenerateTransactionId(m_batchBuffer[k])

\* ------------------------------------------------------------------------
\* Properties of the clustering and of the verdict
\* ------------------------------------------------------------------------
\* The undecided clusters of RSU i that the report may join by the rule on the
\* label `label` of the report.
Joinable(i, report, label) ==
    {id \in DOMAIN m_activeClusters[i] :
        /\ ~m_activeClusters[i][id].decisionMade
        /\ TypeMatch(label, m_activeClusters[i][id].eventType)
        /\ Abs(report.location - m_activeClusters[i][id].centerLocation) < m_distanceThreshold
        /\ Abs(report.timestamp - m_activeClusters[i][id].centerTime) < m_timeThreshold}

Joined(i, report, ids) ==
    \E id \in ids :
        m_activeClusters' =
            [m_activeClusters EXCEPT ![i][id].reports = Append(@, report)]

Opened(i, report) ==
    m_activeClusters' =
        [m_activeClusters EXCEPT ![i] = MapPut(@, EventId(report), NewCluster(report))]

\* C21. Cluster matching rule: a report joins an undecided cluster exactly when
\* its claimed category equals the cluster's category or is equivalent to it,
\* and its distance to the centroid and its time offset are strictly below the
\* thresholds; otherwise a new cluster is opened for it.
ClusterMatchingRule ==
    \A i \in Observers \cap Honest : \A report \in PlacedReports :
        LET ids == Joinable(i, report, report.reportedEventType)
        IN IF ids # {}
           THEN ~ENABLED (ProcessEventReport(i, report) /\ ~Joined(i, report, ids))
           ELSE ~ENABLED (ProcessEventReport(i, report) /\ ~Opened(i, report))

\* The confidence of label c in decision d, as the fraction <<num, den>>
\* recomputed from the normalised trust of its supporters.
Supporters(d, c) == {k \in 1..Len(d.reports) : d.reports[k].reportedEventType = c}

\* C22. Verdict threshold: the verdict of a decided cluster is VALIDATED exactly
\* when the winning confidence is strictly greater than 0.70 and UNCERTAIN
\* otherwise, a confidence equal to 0.70 included.
VerdictThreshold ==
    \A i \in Observers : \A d \in Decisions(i) :
        /\ d.verdict \in {"VALIDATED", "UNCERTAIN"}
        /\ d.verdict = "VALIDATED" <=> 10 * d.C_max > 7 * d.confDen
        /\ 10 * d.C_max = 7 * d.confDen => d.verdict = "UNCERTAIN"

\* A cluster has been decided whose winning confidence is exactly 0.70.
VerdictThresholdWitness ==
    \E i \in Observers : \E d \in Decisions(i) :
        /\ d.confDen > 0
        /\ 10 * d.C_max = 7 * d.confDen
        /\ Cardinality(Supporters(d, d.winningClaim)) < Len(d.reports)

\* The place of label c in the report order of decision d.
FirstReportOf(d, c) == CHOOSE k \in Supporters(d, c) : \A l \in Supporters(d, c) : k <= l

\* C23. Winning outcome and tie-break: the winning outcome is a claimed label
\* of maximal confidence, and among labels of equal maximal confidence it is
\* the one first encountered in the report order of the cluster.
WinnerAndTieBreak ==
    \A i \in Observers : \A d \in Decisions(i) :
        /\ d.winningClaim \in DOMAIN d.claimConfidenceMap
        /\ \A c \in DOMAIN d.claimConfidenceMap :
              /\ d.claimConfidenceMap[c] <= d.claimConfidenceMap[d.winningClaim]
              /\ d.claimConfidenceMap[c] = d.claimConfidenceMap[d.winningClaim]
                    => FirstReportOf(d, d.winningClaim) <= FirstReportOf(d, c)

\* ------------------------------------------------------------------------
\* Properties of the rounds
\* ------------------------------------------------------------------------
\* The place of a phase on the path IDLE -> PRE_PREPARE_SENT |
\* PRE_PREPARE_RECEIVED -> PREPARE_SENT -> COMMIT_SENT -> COMMITTED.
PhaseRank(phase) == IF phase = PRE_PREPARE_RECEIVED THEN PRE_PREPARE_SENT ELSE phase

\* C24. Phase order: the phase of a round never moves backwards on the path
\* from IDLE to COMMITTED, and a round becomes COMMITTED (its block is
\* finalized and the round destroyed) only from COMMIT_SENT.
PhaseOrder ==
    [][\A i \in AllRsus : \A h \in DOMAIN m_pbftActiveConsensus[i] :
          IF h \in DOMAIN m_pbftActiveConsensus'[i]
          THEN PhaseRank(m_pbftActiveConsensus'[i][h].phase)
                  >= PhaseRank(m_pbftActiveConsensus[i][h].phase)
          ELSE m_pbftActiveConsensus[i][h].phase = COMMIT_SENT]_vars

\* RSU i broadcasts its commit vote for h in this step: BroadcastCommit takes
\* the round to COMMIT_SENT.
BroadcastsCommit(i, h) ==
    /\ h \in DOMAIN m_pbftActiveConsensus'[i]
    /\ m_pbftActiveConsensus'[i][h].phase = COMMIT_SENT
    /\ \/ h \notin DOMAIN m_pbftActiveConsensus[i]
       \/ m_pbftActiveConsensus[i][h].phase # COMMIT_SENT

\* C25. Commit vote discipline: an RSU broadcasts a commit vote for block hash
\* h only in a step in which it has recorded at least 2f+1 distinct prepare
\* voters for h, and it broadcasts at most one commit vote per block hash.
CommitVoteDiscipline ==
    [][\A i \in Honest : \A h \in DOMAIN m_pbftActiveConsensus'[i] :
          /\ BroadcastsCommit(i, h) =>
                /\ Cardinality(m_pbftActiveConsensus'[i][h].prepareVotes) >= Required
                /\ VoteMsg("commit", h, i) \notin sent
          /\ VoteMsg("commit", h, i) \in sent' \ sent => BroadcastsCommit(i, h)]_vars

\* The active rounds of the proposer for the height after its chain tip.
PendingAtNextHeight ==
    {h \in DOMAIN m_pbftActiveConsensus[Leader] :
        m_pbftActiveConsensus[Leader][h].block.height = Last(m_localBlockchain[Leader]).height + 1}

\* C26. One pending proposal per height: the proposer never has two active
\* rounds for the same block height, and ProposeBlockForBatch starts no round
\* while a round for the height after the chain tip is active.
OnePendingProposalPerHeight ==
    /\ \A g, h \in DOMAIN m_pbftActiveConsensus[Leader] :
          m_pbftActiveConsensus[Leader][g].block.height
              = m_pbftActiveConsensus[Leader][h].block.height => g = h
    /\ PendingAtNextHeight # {} =>
          ~ENABLED (ProposeBlockForBatch /\ m_pbftActiveConsensus' # m_pbftActiveConsensus)

\* A proposal is due while a round for the next height is pending and the pool
\* holds a transaction that is not in the pending block.
OnePendingProposalWitness ==
    /\ PendingAtNextHeight # {}
    /\ proposeTimers > 0
    /\ \E h \in PendingAtNextHeight : \E k \in 1..Len(m_transactionPool[Leader]) :
          \A l \in 1..Len(m_pbftActiveConsensus[Leader][h].block.transactions) :
              m_transactionPool[Leader][k] # m_pbftActiveConsensus[Leader][h].block.transactions[l]

\* The snapshots the flushes so far have taken of the batch buffer, as the
\* batch Interests carry them.
Snapshots == {m.txs : m \in {x \in sent : x.type = "adaptive-transaction-batch"}}

\* C27. Proposal content equals the batch snapshot: a block the proposer
\* proposes has height = chain-tip height + 1, previousHash = chain-tip hash
\* and exactly the transactions of the snapshot one flush took of the buffer.
ProposalIsBatchSnapshot ==
    [][\A m \in sent' \ sent :
          m.type = "pre-prepare" /\ m.sender = Leader =>
             /\ m.height = Last(m_localBlockchain[Leader]).height + 1
             /\ m.previousHash = Last(m_localBlockchain[Leader]).blockHash
             /\ m.txs \in Snapshots]_vars

\* Transaction tx has left the batch buffer in a flush / is in a block the
\* proposer has proposed.
Flushed(tx) == \E txs \in Snapshots : \E k \in 1..Len(txs) : txs[k] = serialize(tx)

InProposal(tx) ==
    \E m \in sent : /\ m.type = "pre-prepare"
                    /\ m.sender = Leader
                    /\ \E k \in 1..Len(m.txs) : m.txs[k] = serialize(tx)

\* C28. Every flush leads to a proposal: a transaction flushed from the
\* proposer's batch buffer is eventually in a block the proposer proposes, also
\* when no further transaction arrives and when the flush happens while a round
\* for the next height is pending.
FlushLeadsToProposal == \A tx \in ProposerInputs : Flushed(tx) ~> InProposal(tx)

\* C29. Progress under reordering: with every RSU honest and every broadcast
\* message delivered to every other RSU, in any order and any number of times,
\* from some point on every block the proposer has proposed is in the chain
\* of every RSU.  (The proposals of a run are finitely many and a chain only
\* grows, so this is "each proposed block is eventually appended everywhere".)
ProgressUnderReordering ==
    <>[](\A h \in Proposed : \A i \in Rsus : h \in ChainHashes(Chain(i)))

\* C30. Stalled rounds stay pending: a round leaves the round-state map of an
\* RSU only in the step in which the RSU counts a commit quorum for its hash
\* and finalizes it; in every other step (a timer, any other message) the
\* round stays in the map with its block, with every vote it held and in a
\* phase that is not an earlier one.
StalledRoundsStayPending ==
    [][\A i \in AllRsus : \A h \in DOMAIN m_pbftActiveConsensus[i] :
          LET round == m_pbftActiveConsensus[i][h]
          IN IF h \in DOMAIN m_pbftActiveConsensus'[i]
             THEN LET after == m_pbftActiveConsensus'[i][h]
                  IN /\ after.block = round.block
                     /\ round.prepareVotes \subseteq after.prepareVotes
                     /\ round.commitVotes \subseteq after.commitVotes
                     /\ PhaseRank(after.phase) >= PhaseRank(round.phase)
             ELSE \E r \in finalized'[i] :
                     /\ r.hash = h
                     /\ round.commitVotes \subseteq r.voters
                     /\ Cardinality(r.voters \ round.commitVotes) = 1
                     /\ Cardinality(r.voters) >= Required]_vars

\* Nothing more can happen, and an RSU still holds the round of a block that
\* another RSU has finalized.
StalledRoundsStayPendingWitness ==
    /\ Quiescent
    /\ \E i, j \in Rsus :
          \E h \in DOMAIN m_pbftActiveConsensus[i] :
             \E r \in finalized[j] : r.hash = h

\* ------------------------------------------------------------------------
\* Properties of the finalization
\* ------------------------------------------------------------------------
\* Transaction tx has the serialization of no transaction of block b.
NotIncluded(tx, b) ==
    \A k \in 1..Len(b.transactions) : serialize(tx) # serialize(b.transactions[k])

\* C31. Pool cleanup at finalization: in the step in which an RSU counts the
\* commit quorum for block b, its pool becomes the previous pool without the
\* transactions whose serialization equals that of a transaction of b, the
\* others in their previous order, and the round of b's hash is gone.
PoolCleanupAtFinalization ==
    [][\A i \in AllRsus : \A r \in finalized'[i] \ finalized[i] :
          LET b == m_pbftActiveConsensus[i][r.hash].block
          IN /\ m_transactionPool'[i] =
                   SelectSeq(m_transactionPool[i], LAMBDA tx : NotIncluded(tx, b))
             /\ r.hash \notin DOMAIN m_pbftActiveConsensus'[i]]_vars

\* The proposer has finalized a block and a transaction the block does not
\* hold is still in its pool.
PoolCleanupWitness ==
    /\ finalized[Leader] # {}
    /\ m_pbftActiveConsensus[Leader] = EmptyMap
    /\ m_transactionPool[Leader] # <<>>

\* C32. No transaction loss at commit: a transaction leaves the pool of a
\* non-faulty RSU, and a round is destroyed, only in a step that appends to
\* the RSU's chain the block of that round, which holds the transaction.
NoTransactionLossAtCommit ==
    [][\A i \in Honest :
          LET chainBefore == m_localBlockchain[i]
              chainAfter == m_localBlockchain'[i]
              Appends(b) == chainAfter = Append(chainBefore, b)
          IN /\ \A h \in DOMAIN m_pbftActiveConsensus[i] :
                   h \notin DOMAIN m_pbftActiveConsensus'[i] =>
                      Appends(m_pbftActiveConsensus[i][h].block)
             /\ \A k \in 1..Len(m_transactionPool[i]) :
                   LET tx == m_transactionPool[i][k]
                   IN (\A l \in 1..Len(m_transactionPool'[i]) :
                          m_transactionPool'[i][l] # tx) =>
                      \E b \in {m_pbftActiveConsensus[i][h].block :
                                  h \in DOMAIN m_pbftActiveConsensus[i]} :
                         /\ Appends(b)
                         /\ ~NotIncluded(tx, b)]_vars

\* ------------------------------------------------------------------------
\* Properties of the flush timer and of the controller
\* ------------------------------------------------------------------------
\* C33. Flush timer tracks the buffer: after every step of the batch manager
\* a flush timer is pending if and only if the buffer is non-empty, and then
\* exactly one; a step that flushes leaves the buffer empty and no timer
\* pending, and an enqueue that does not flush leaves exactly one pending.
FlushTimerTracksBuffer ==
    [][/\ m_adaptiveTimer' = (IF m_batchBuffer' # <<>> THEN 1 ELSE 0)
       /\ (\E m \in sent' \ sent : m.type = "adaptive-transaction-batch") =>
             m_batchBuffer' = <<>> /\ m_adaptiveTimer' = 0
       /\ Len(m_batchBuffer') > Len(m_batchBuffer) => m_adaptiveTimer' = 1]_vars

\* Two transactions wait in the buffer and one timer is pending.
FlushTimerWitness == Len(m_batchBuffer) >= 2 /\ m_adaptiveTimer = 1

\* The average of the latency history lies between the lower and the upper
\* fraction of L_max, limits included.
LatencyInBand ==
    LET total == SumSeq(m_latencyHistory)
        size == Len(m_latencyHistory)
    IN /\ size > 0
       /\ 4 * total >= m_latencyMax * size
       /\ 4 * total <= 3 * m_latencyMax * size

\* C34. Bounded controller parameters: after every step B_base is within
\* [B_min, B_max] and the time-trigger bound within [0.05 s, 1.0 s], and a
\* step taken while the average latency lies between the lower and the upper
\* fraction of L_max leaves B_base as it was.
BoundedControllerParameters ==
    [][/\ m_batchMin <= m_batchBase' /\ m_batchBase' <= m_batchMax
       /\ 50 <= m_timeMax' /\ m_timeMax' <= 1000
       /\ LatencyInBand => m_batchBase' = m_batchBase]_vars

\* An adjustment has brought the time-trigger bound to its floor, B_base is
\* next to a limit, the latency average is between the two fractions and a
\* further adjustment can follow.
BoundedControllerWitness ==
    /\ m_timeMax = 50
    /\ m_batchBase # 100
    /\ LatencyInBand
    /\ batchSteps < MaxBatchSteps

\* ------------------------------------------------------------------------
\* Properties of the ledgers
\* ------------------------------------------------------------------------
\* The places <<block, transaction>> of the Registration transactions for
\* vehicle v in the chain of RSU i, and the latest of them.
RegistrationsInChain(i, v) ==
    UNION {{<<k, l>> : l \in {x \in 1..Len(m_localBlockchain[i][k].transactions) :
                                /\ m_localBlockchain[i][k].transactions[x].type = "REGISTRATION"
                                /\ m_localBlockchain[i][k].transactions[x].vehicleId_reg = v}} :
           k \in 1..Len(m_localBlockchain[i])}

LatestRegistration(i, v) ==
    CHOOSE p \in RegistrationsInChain(i, v) :
        \A q \in RegistrationsInChain(i, v) :
            q[1] < p[1] \/ (q[1] = p[1] /\ q[2] <= p[2])

\* C35. Registration visibility only after commit: at every RSU a key query
\* for vehicle v answers NOT_FOUND as long as the RSU's chain holds no block
\* with a Registration transaction for v, whatever requests have been
\* received, and from then on the key of the latest such transaction.
RegistrationVisibleAfterCommit ==
    \A i \in Honest : \A v \in Vehicles :
        HandleKeyRequest(i, v) =
            IF RegistrationsInChain(i, v) = {} THEN "NOT_FOUND"
            ELSE LET p == LatestRegistration(i, v)
                 IN m_localBlockchain[i][p[1]].transactions[p[2]].publicKey

\* The registration of a vehicle is in the proposer's chain and not yet in the
\* chain of another RSU, and the registration request of another vehicle has
\* been received and is in no chain.
RegistrationVisibilityWitness ==
    \E v, w \in Vehicles : \E i \in Rsus :
        /\ RegistrationsInChain(Leader, v) # {}
        /\ RegistrationsInChain(i, v) = {}
        /\ RegistrationsInChain(Leader, w) = {}
        /\ \E k \in 1..Len(m_transactionPool[Leader]) :
              m_transactionPool[Leader][k].vehicleId_reg = w

\* ------------------------------------------------------------------------
\* Properties of the reports and of the reputations
\* ------------------------------------------------------------------------
\* The reporter has no key at RSU i, or the signature is not the one derived
\* from the report.
Unauthenticated(i, report) ==
    \/ report.vehicleId \notin DOMAIN m_vehicleKeys[i]
    \/ report.signature # ExpectedSignature(report.vehicleId, report.reportedEventType)

\* C36. Unauthenticated reports are dropped: processing a report whose
\* reporter is not registered at the RSU, or whose signature differs from the
\* expected derivation, leaves the set of clusters as it is: the report joins
\* no cluster and opens none, so that no decision is scheduled for it.
UnauthenticatedReportsDropped ==
    \A i \in Observers \cap Honest : \A report \in Reports :
        Unauthenticated(i, report) =>
            ~ENABLED (ProcessEventReport(i, report) /\ m_activeClusters' # m_activeClusters)

\* The RSU can process a report with a wrong signature of a registered vehicle
\* that an undecided cluster would take, and a report of a vehicle it has not
\* registered.
UnauthenticatedReportsWitness ==
    \E i \in Observers \cap Honest : \E bad, unknown \in Reports :
        /\ bad.vehicleId \in DOMAIN m_vehicleKeys[i]
        /\ bad.signature = BadSignature
        /\ FindMatchingCluster(i, bad) # NoCluster
        /\ unknown.vehicleId \notin DOMAIN m_vehicleKeys[i]
        /\ unknown.signature # BadSignature
        /\ ENABLED ProcessEventReport(i, bad)
        /\ ENABLED ProcessEventReport(i, unknown)

\* C37. Reputation changes only through validated verdicts: the reputation
\* and the outcome history of a vehicle that has a reputation record change
\* only in a step that decides VALIDATED a cluster holding a report of the
\* vehicle, or that appends a block with a ReputationUpdate transaction for
\* it; committing a further Registration transaction for it alters neither.
ReputationOnlyByVerdict ==
    [][\A i \in Honest : \A v \in DOMAIN m_vehicleReputations[i] :
          (\/ m_vehicleReputations'[i][v] # m_vehicleReputations[i][v]
           \/ HistoryOf(m_vehicleReportHistory'[i], v) # HistoryOf(m_vehicleReportHistory[i], v))
          => \/ /\ Len(decisions'[i]) = Len(decisions[i]) + 1
                /\ Last(decisions'[i]).verdict = "VALIDATED"
                /\ \E k \in 1..Len(Last(decisions'[i]).reports) :
                      Last(decisions'[i]).reports[k].vehicleId = v
             \/ /\ Len(m_localBlockchain'[i]) = Len(m_localBlockchain[i]) + 1
                /\ \E k \in 1..Len(Last(m_localBlockchain'[i]).transactions) :
                      /\ Last(m_localBlockchain'[i]).transactions[k].type = "REPUTATION_UPDATE"
                      /\ Last(m_localBlockchain'[i]).transactions[k].vehicleId_rep = v]_vars

\* C38. Bounded FIFO outcome history: every outcome history holds at most N
\* entries, each 0 or 1; a step that applies k outcomes to a history appends
\* k entries and keeps, in their order, the entries before them, less the
\* oldest ones that exceed the capacity N: one outcome applied to a full
\* history removes exactly the oldest entry.
BoundedFifoHistory ==
    [][\A i \in Honest : \A v \in DOMAIN m_vehicleReportHistory'[i] :
          LET old == HistoryOf(m_vehicleReportHistory[i], v)
              new == m_vehicleReportHistory'[i][v]
              applied == Cardinality({k \in 1..Len(Last(decisions'[i]).reports) :
                                         Last(decisions'[i]).reports[k].vehicleId = v})
          IN /\ Len(new) <= HISTORY_WINDOW_N
             /\ \A k \in 1..Len(new) : new[k] \in {0, 1}
             /\ new # old =>
                   /\ Len(new) = Min2(HISTORY_WINDOW_N, Len(old) + applied)
                   /\ \A k \in 1..(Len(new) - applied) :
                         new[k] = old[Len(old) + applied - Len(new) + k]]_vars

\* An outcome has been applied to the full history 1,0,1,0,...: its first
\* entry is gone and the others have moved up by one place.
BoundedFifoHistoryWitness ==
    \E i \in Honest : \E v \in DOMAIN m_vehicleReportHistory[i] :
        LET h == m_vehicleReportHistory[i][v]
        IN /\ Len(h) = HISTORY_WINDOW_N
           /\ \A k \in 1..(HISTORY_WINDOW_N - 1) : h[k] = (k + 1) % 2

\* C39. Unanimous clusters always validate: a check of a cluster whose reports
\* all claim one label, a single report included, ends VALIDATED with
\* confidence 1, and every reporter of the cluster receives a reward: a
\* reputation update that does not lower its reputation, and the outcome 1 as
\* the latest entry of its history.
UnanimousClustersValidate ==
    [][\A i \in Honest : \A eventId \in DOMAIN m_activeClusters[i] :
          LET reports == m_activeClusters[i][eventId].reports
          IN (/\ CheckCluster(i, eventId)
              /\ \A k, l \in 1..Len(reports) :
                    reports[k].reportedEventType = reports[l].reportedEventType)
             => LET d == Last(decisions'[i])
                    txs == SubSeq(forwarded'[i], Len(forwarded[i]) + 1, Len(forwarded'[i]))
                IN /\ d.verdict = "VALIDATED"
                   /\ d.confDen > 0
                   /\ d.C_max = d.confDen
                   /\ \A k \in 1..Len(reports) :
                         LET v == reports[k].vehicleId
                         IN /\ Last(HistoryOf(m_vehicleReportHistory'[i], v)) = 1
                            /\ \E l \in 1..Len(txs) :
                                  /\ txs[l].type = "REPUTATION_UPDATE"
                                  /\ txs[l].vehicleId_rep = v
                                  /\ txs[l].newReputation >= txs[l].oldReputation]_vars

====
